---- MODULE Spec2Model ----
(***************************************************************************)
(* A model of the gobayes classification engine: the Category and          *)
(* Categories stores (bayes/category), the Classifier with its             *)
(* reader-writer lock (bayes/bayes.go) and the persistence entry points    *)
(* (bayes/persistence.go).                                                 *)
(*                                                                         *)
(* Every exported method of Classifier is a small process: it acquires the *)
(* lock, runs the statements of its body in program order and releases the *)
(* lock.  The position of each caller is kept in pc, its local variables   *)
(* in loc.  float64 priors are modelled as exact fractions <<num, den>>.   *)
(***************************************************************************)
EXTENDS Integers, Sequences, FiniteSets, TLC

VARIABLES
    categories,   \* Classifier.categories: [categories, probabilitiesDirty]
    mu,           \* Classifier.mu: [writer, readers]
    pc,           \* position of every caller
    loc,          \* local variables of every caller
    procs,        \* the callers that take part in a behaviour
    inputs,       \* the arguments the callers draw from: [names, texts, readers, writers]
    plan,         \* the call every caller is to issue (AnyCall: any call, any number)
    pending,      \* callers that have not yet issued their planned call
    start,        \* the store the behaviour started from
    committed,    \* token counts and tallies left by the last completed write
    fs            \* the file system: [dir, open, last]

vars == <<categories, mu, pc, loc, procs, inputs, plan, pending, start, committed, fs>>

-----------------------------------------------------------------------------
(* Bounds of the model *)

\* a category's tally is not trained beyond MaxTally
MaxTally == 3

\* width of the model's machine integer (Go's int is 32 or 64 bits wide)
IntBits == 6

AllProcs == {"p1", "p2", "p3"}

NoProc == "none"

\* category names that match categoryNamePattern
ValidNames == {"a", "b"}

\* category names that do not match categoryNamePattern
InvalidNames == {"", "a!"}

\* tokens the tokenizer produces from the sample texts
Tokens == {"x", "y"}

-----------------------------------------------------------------------------
(* Maps (Go map[string]T) as functions with a finite domain *)

EmptyMap == [k \in {} |-> 0]

MapPut(m, k, v) == [j \in DOMAIN m \cup {k} |-> IF j = k THEN v ELSE m[j]]

MapDelete(m, k) == [j \in DOMAIN m \ {k} |-> m[j]]

RECURSIVE SumOver(_, _)
SumOver(m, keys) ==
    IF keys = {} THEN 0
    ELSE LET k == CHOOSE j \in keys : TRUE
         IN  m[k] + SumOver(m, keys \ {k})

SumValues(m) == SumOver(m, DOMAIN m)

-----------------------------------------------------------------------------
(* float64 values as exact fractions *)

RECURSIVE GCD(_, _)
GCD(a, b) == IF b = 0 THEN a ELSE GCD(b, a % b)

Frac(n, d) ==
    IF n = 0 THEN <<0, 1>>
    ELSE LET g == GCD(IF n < 0 THEN -n ELSE n, d) IN <<n \div g, d \div g>>

FZero == <<0, 1>>

FOne == <<1, 1>>

FAdd(p, q) == Frac(p[1] * q[2] + q[1] * p[2], p[2] * q[2])

FSub(p, q) == Frac(p[1] * q[2] - q[1] * p[2], p[2] * q[2])

FMul(p, q) == Frac(p[1] * q[1], p[2] * q[2])

\* q is not zero and not negative
FDiv(p, q) == Frac(p[1] * q[2], p[2] * q[1])

FGreater(p, q) == p[1] * q[2] > q[1] * p[2]

-----------------------------------------------------------------------------
(* category.Category *)

NewCategory ==
    [tokens |-> EmptyMap, tally |-> 0, probNotInCat |-> FZero, probInCat |-> FZero]

ErrNone == "nil"

ErrInvalidTokenCount == "count must be greater than zero"

TrainTokenErr(count) == IF count <= 0 THEN ErrInvalidTokenCount ELSE ErrNone

\* TrainToken without the check of count
TrainTokenUnchecked(cat, word, count) ==
    LET cur == IF word \in DOMAIN cat.tokens THEN cat.tokens[word] ELSE 0
    IN  [cat EXCEPT !.tokens = MapPut(cat.tokens, word, cur + count),
                    !.tally = cat.tally + count]

\* cat.tokens[word] += count; cat.tally += count
TrainToken(cat, word, count) ==
    IF count <= 0 THEN cat
    ELSE LET cur == IF word \in DOMAIN cat.tokens THEN cat.tokens[word] ELSE 0
         IN  [cat EXCEPT !.tokens = MapPut(cat.tokens, word, cur + count),
                         !.tally = cat.tally + count]

UntrainTokenErr(count) == IF count <= 0 THEN ErrInvalidTokenCount ELSE ErrNone

\* UntrainToken with the slip of taking count, not the stored count, off the tally
UntrainTokenByCount(cat, word, count) ==
    IF count <= 0 THEN cat
    ELSE IF word \in DOMAIN cat.tokens
         THEN IF count >= cat.tokens[word]
              THEN [cat EXCEPT !.tally = cat.tally - count,
                               !.tokens = MapDelete(cat.tokens, word)]
              ELSE [cat EXCEPT !.tokens = MapPut(cat.tokens, word, cat.tokens[word] - count),
                               !.tally = cat.tally - count]
         ELSE cat

\* UntrainToken that removes the token only when count is greater than its count
UntrainTokenAboveCount(cat, word, count) ==
    IF count <= 0 THEN cat
    ELSE IF word \in DOMAIN cat.tokens
         THEN IF count > cat.tokens[word]
              THEN [cat EXCEPT !.tally = cat.tally - cat.tokens[word],
                               !.tokens = MapDelete(cat.tokens, word)]
              ELSE [cat EXCEPT !.tokens = MapPut(cat.tokens, word, cat.tokens[word] - count),
                               !.tally = cat.tally - count]
         ELSE cat

\* UntrainToken that takes count off the tally also for a token it does not hold
UntrainTokenUnknownCounted(cat, word, count) ==
    IF count <= 0 THEN cat
    ELSE IF word \in DOMAIN cat.tokens
         THEN IF count >= cat.tokens[word]
              THEN [cat EXCEPT !.tally = cat.tally - cat.tokens[word],
                               !.tokens = MapDelete(cat.tokens, word)]
              ELSE [cat EXCEPT !.tokens = MapPut(cat.tokens, word, cat.tokens[word] - count),
                               !.tally = cat.tally - count]
         ELSE [cat EXCEPT !.tally = cat.tally - count]

\* UntrainToken that keeps a token whose count has come down to zero
UntrainTokenKeepingZero(cat, word, count) ==
    IF count <= 0 THEN cat
    ELSE IF word \in DOMAIN cat.tokens
         THEN IF count >= cat.tokens[word]
              THEN [cat EXCEPT !.tally = cat.tally - cat.tokens[word],
                               !.tokens = MapPut(cat.tokens, word, 0)]
              ELSE [cat EXCEPT !.tokens = MapPut(cat.tokens, word, cat.tokens[word] - count),
                               !.tally = cat.tally - count]
         ELSE cat

UntrainToken(cat, word, count) ==
    IF count <= 0 THEN cat
    ELSE IF word \in DOMAIN cat.tokens
         THEN IF count >= cat.tokens[word]
              THEN [cat EXCEPT !.tally = cat.tally - cat.tokens[word],
                               !.tokens = MapDelete(cat.tokens, word)]
              ELSE [cat EXCEPT !.tokens = MapPut(cat.tokens, word, cat.tokens[word] - count),
                               !.tally = cat.tally - count]
         ELSE cat

GetTokenCount(cat, word) ==
    IF word \in DOMAIN cat.tokens THEN cat.tokens[word] ELSE 0

GetTally(cat) == cat.tally

GetProbInCat(cat) == cat.probInCat

GetProbNotInCat(cat) == cat.probNotInCat

setProbabilities(cat, probInCat, probNotInCat) ==
    [cat EXCEPT !.probInCat = probInCat, !.probNotInCat = probNotInCat]

-----------------------------------------------------------------------------
(* category.Categories *)

NewCategories == [categories |-> EmptyMap, probabilitiesDirty |-> TRUE]

AddCategory(cats, name) ==
    [categories |-> MapPut(cats.categories, name, NewCategory),
     probabilitiesDirty |-> TRUE]

GetCategory(cats, name) ==
    IF name \in DOMAIN cats.categories THEN cats ELSE AddCategory(cats, name)

\* DeleteCategory that marks the priors dirty and deletes nothing
DeleteCategoryMarkOnly(cats, name) ==
    [cats EXCEPT !.probabilitiesDirty = TRUE]

DeleteCategory(cats, name) ==
    [categories |-> MapDelete(cats.categories, name),
     probabilitiesDirty |-> TRUE]

Names(cats) == DOMAIN cats.categories

LookupCategory(cats, name) ==
    [ok |-> name \in DOMAIN cats.categories,
     cat |-> IF name \in DOMAIN cats.categories THEN cats.categories[name] ELSE NewCategory]

SetCategoryProbabilities(cats, name, probInCat, probNotInCat) ==
    IF name \in DOMAIN cats.categories
    THEN [cats EXCEPT !.categories[name] = setProbabilities(@, probInCat, probNotInCat)]
    ELSE cats

MarkProbabilitiesDirty(cats) == [cats EXCEPT !.probabilitiesDirty = TRUE]

\* the sum of the tallies, the totalTally of EnsureCategoryProbabilities
TotalTally(cats) ==
    SumValues([n \in DOMAIN cats.categories |-> GetTally(cats.categories[n])])

\* the prior EnsureCategoryProbabilities computes for one category
Probability(cats, name) ==
    IF TotalTally(cats) > 0
    THEN Frac(GetTally(cats.categories[name]), TotalTally(cats))
    ELSE FZero

\* EnsureCategoryProbabilities storing the prior in both fields
EnsureCategoryProbabilitiesTwice(cats) ==
    IF ~cats.probabilitiesDirty THEN cats
    ELSE [categories |->
            [n \in DOMAIN cats.categories |->
                setProbabilities(cats.categories[n], Probability(cats, n),
                                 Probability(cats, n))],
          probabilitiesDirty |-> FALSE]

EnsureCategoryProbabilities(cats) ==
    IF ~cats.probabilitiesDirty THEN cats
    ELSE [categories |->
            [n \in DOMAIN cats.categories |->
                setProbabilities(cats.categories[n], Probability(cats, n),
                                 FSub(FOne, Probability(cats, n)))],
          probabilitiesDirty |-> FALSE]

\* the map Summaries builds once the priors are ensured
SummariesSnapshot(cats) ==
    [n \in DOMAIN cats.categories |->
        [TokenTally |-> GetTally(cats.categories[n]),
         ProbNotInCat |-> GetProbNotInCat(cats.categories[n]),
         ProbInCat |-> GetProbInCat(cats.categories[n])]]

-----------------------------------------------------------------------------
(* Machine integers: Go's int wraps around silently *)

RECURSIVE Pow2(_)
Pow2(n) == IF n = 0 THEN 1 ELSE 2 * Pow2(n - 1)

MaxInt == Pow2(IntBits - 1) - 1

WrapInt(v) == ((v + Pow2(IntBits - 1)) % Pow2(IntBits)) - Pow2(IntBits - 1)

-----------------------------------------------------------------------------
(* bayes: tokenizing and counting.  A text is given by the token sequence  *)
(* getTokenizer()(text) returns for it.                                    *)

Texts == { <<>>, <<"x">>, <<"y">>, <<"x", "x">>, <<"x", "y">>, <<"y", "x", "x">> }

\* countTokenOccurrences counting every distinct token once
countDistinctTokens(tokens) ==
    [w \in {tokens[i] : i \in 1..Len(tokens)} |-> 1]

RECURSIVE countTokenOccurrences(_)
countTokenOccurrences(tokens) ==
    IF tokens = <<>> THEN EmptyMap
    ELSE LET occ == countTokenOccurrences(Tail(tokens))
             tok == Head(tokens)
         IN  MapPut(occ, tok, (IF tok \in DOMAIN occ THEN occ[tok] ELSE 0) + 1)

\* a third name the pattern accepts, for calls on a store that holds two categories
ThirdName == "c"

categoryNamePattern(name) == name \in ValidNames \cup {ThirdName}

ErrInvalidCategoryName == "invalid category name"

\* cleanUpCategory with the slip of never deleting
cleanUpCategoryNever(cats, name) == cats

\* cleanUpCategory with the slip of deleting below a tally of two
cleanUpCategoryBelowTwo(cats, name) ==
    IF GetTally(cats.categories[name]) <= 1 THEN DeleteCategory(cats, name) ELSE cats

cleanUpCategory(cats, name) ==
    IF GetTally(cats.categories[name]) = 0 THEN DeleteCategory(cats, name) ELSE cats

\* the loop of Train or Untrain over the occurrences, in any iteration order
RECURSIVE ApplyOccurrences(_, _, _, _)
ApplyOccurrences(cat, untrain, occ, rest) ==
    IF rest = {} THEN cat
    ELSE LET w == CHOOSE t \in rest : TRUE
         IN  ApplyOccurrences(IF untrain THEN UntrainToken(cat, w, occ[w])
                                         ELSE TrainToken(cat, w, occ[w]),
                              untrain, occ, rest \ {w})

\* the whole of Train (untrain = FALSE) or Untrain (untrain = TRUE) under the lock
TrainUnderLock(cats, untrain, name, text) ==
    IF ~categoryNamePattern(name) THEN cats
    ELSE LET got == GetCategory(cats, name)
             occ == countTokenOccurrences(text)
             trained == [got EXCEPT !.categories[name] =
                            ApplyOccurrences(@, untrain, occ, DOMAIN occ)]
         IN  EnsureCategoryProbabilities(cleanUpCategory(trained, name))

-----------------------------------------------------------------------------
(* bayes: scoring *)

\* calculateBayesianProbability dividing by the other categories' share only
calculateBayesianProbabilityOverRest(cat, tokenScore, tokenTally) ==
    LET prc == GetProbInCat(cat)
        prnc == GetProbNotInCat(cat)
        tokPrnc == Frac(tokenTally - tokenScore, tokenTally)
        tokPrc == Frac(tokenScore, tokenTally)
        numerator == FMul(tokPrc, prc)
        denominator == FMul(tokPrnc, prnc)
    IN  IF denominator # FZero THEN FDiv(numerator, denominator) ELSE FZero

calculateBayesianProbability(cat, tokenScore, tokenTally) ==
    LET prc == GetProbInCat(cat)
        prnc == GetProbNotInCat(cat)
        tokPrnc == Frac(tokenTally - tokenScore, tokenTally)
        tokPrc == Frac(tokenScore, tokenTally)
        numerator == FMul(tokPrc, prc)
        denominator == FAdd(FMul(tokPrnc, prnc), numerator)
    IN  IF denominator # FZero THEN FDiv(numerator, denominator) ELSE FZero

\* tokenTally of one word: its count summed over the categories
TokenTally(cats, word) ==
    SumValues([n \in DOMAIN cats.categories |-> GetTokenCount(cats.categories[n], word)])

\* the loop of scoreUnlocked without its continue: 0 / 0 is NaN, and a sum
\* with a NaN in it is not greater than zero
RECURSIVE ScoreOverWithoutSkip(_, _, _, _)
ScoreOverWithoutSkip(cats, name, occ, words) ==
    IF words = {} \/ \E t \in words : TokenTally(cats, t) = 0 THEN FZero
    ELSE LET w == CHOOSE t \in words : TRUE
         IN  FAdd(ScoreOverWithoutSkip(cats, name, occ, words \ {w}),
                  FMul(Frac(occ[w], 1),
                       calculateBayesianProbability(
                           cats.categories[name],
                           GetTokenCount(cats.categories[name], w),
                           TokenTally(cats, w))))

RECURSIVE ScoreOver(_, _, _, _)
ScoreOver(cats, name, occ, words) ==
    IF words = {} THEN FZero
    ELSE LET w == CHOOSE t \in words : TRUE
             rest == ScoreOver(cats, name, occ, words \ {w})
         IN  IF TokenTally(cats, w) = 0 THEN rest
             ELSE FAdd(rest,
                       FMul(Frac(occ[w], 1),
                            calculateBayesianProbability(
                                cats.categories[name],
                                GetTokenCount(cats.categories[name], w),
                                TokenTally(cats, w))))

\* scoreUnlocked without the last loop, which drops the scores of zero
scoreUnlockedKeepingZero(cats, text) ==
    [n \in Names(cats) |-> ScoreOver(cats, n, countTokenOccurrences(text),
                                     DOMAIN countTokenOccurrences(text))]

scoreUnlocked(cats, text) ==
    LET occ == countTokenOccurrences(text)
        scores == [n \in Names(cats) |-> ScoreOver(cats, n, occ, DOMAIN occ)]
    IN  [n \in {m \in Names(cats) : FGreater(scores[m], FZero)} |-> scores[n]]

\* sort.Strings over the category names of the model
NameOrder == <<"a", "b", ThirdName>>

\* the loop of Classify taking a later name on equal scores
RECURSIVE ClassifyFromLastTie(_, _, _)
ClassifyFromLastTie(scores, i, result) ==
    IF i > Len(NameOrder) THEN result
    ELSE IF NameOrder[i] \in DOMAIN scores
            /\ ~FGreater(result.Score, scores[NameOrder[i]])
         THEN ClassifyFromLastTie(scores, i + 1,
                                  [Category |-> NameOrder[i], Score |-> scores[NameOrder[i]]])
         ELSE ClassifyFromLastTie(scores, i + 1, result)

RECURSIVE ClassifyFrom(_, _, _)
ClassifyFrom(scores, i, result) ==
    IF i > Len(NameOrder) THEN result
    ELSE IF NameOrder[i] \in DOMAIN scores /\ FGreater(scores[NameOrder[i]], result.Score)
         THEN ClassifyFrom(scores, i + 1, [Category |-> NameOrder[i], Score |-> scores[NameOrder[i]]])
         ELSE ClassifyFrom(scores, i + 1, result)

\* a Classification that names a category before any score is seen
NoClassificationNamed == [Category |-> "a", Score |-> FZero]

NoClassification == [Category |-> "", Score |-> FZero]

\* Classify that returns the first scored category in name order
ClassifyResultFirstScored(cats, text) ==
    LET scores == scoreUnlocked(cats, text)
        first == CHOOSE i \in 1..Len(NameOrder) :
                    /\ NameOrder[i] \in DOMAIN scores
                    /\ \A j \in 1..(i - 1) : NameOrder[j] \notin DOMAIN scores
    IN  IF DOMAIN scores = {} THEN NoClassification
        ELSE [Category |-> NameOrder[first], Score |-> scores[NameOrder[first]]]

ClassifyResult(cats, text) == ClassifyFrom(scoreUnlocked(cats, text), 1, NoClassification)

-----------------------------------------------------------------------------
(* bayes: persistence *)

persistedModelVersion == 1

errNilWriter == "writer is nil"

errNilReader == "reader is nil"

errDecode == "decode model"

errEncode == "encode model"

errUnsupportedVersion == "unsupported model version"

errInvalidCategoryName == "invalid category name in persisted model"

errInvalidTokenCount == "invalid token count in persisted model"

errInvalidCategoryTally == "invalid category tally in persisted model"

\* sum := 0; for ... { sum += count } in Go's int
RECURSIVE SumInt(_, _)
SumInt(m, keys) ==
    IF keys = {} THEN 0
    ELSE LET k == CHOOSE j \in keys : TRUE
         IN  WrapInt(SumInt(m, keys \ {k}) + m[k])

\* the error validateModelState finds in one category, ErrNone when it finds none
validateCategory(name, cat) ==
    IF ~categoryNamePattern(name) THEN errInvalidCategoryName
    ELSE IF cat.Tally < 0 THEN errInvalidCategoryTally
    ELSE IF \E t \in DOMAIN cat.Tokens : t = "" \/ cat.Tokens[t] <= 0
         THEN errInvalidTokenCount
    ELSE IF SumInt(cat.Tokens, DOMAIN cat.Tokens) # cat.Tally THEN errInvalidCategoryTally
    ELSE ErrNone

\* the errors validateModelState can return: the first one met in map order
validateModelState(state) ==
    IF state.Version # persistedModelVersion THEN {errUnsupportedVersion}
    ELSE LET found == {validateCategory(n, state.Categories[n]) : n \in DOMAIN state.Categories}
                      \ {ErrNone}
         IN  IF found = {} THEN {ErrNone} ELSE found

\* Categories.ExportStates: a deep copy of every category's tokens and tally
ExportStates(cats) ==
    [n \in DOMAIN cats.categories |->
        [Tokens |-> cats.categories[n].tokens, Tally |-> cats.categories[n].tally]]

\* the validation of Categories.ReplaceStates, in exact arithmetic
ValidPersistedCategory(cat) ==
    /\ cat.Tally >= 0
    /\ \A t \in DOMAIN cat.Tokens : t # "" /\ cat.Tokens[t] > 0
    /\ SumValues(cat.Tokens) = cat.Tally

\* Categories.ReplaceStates: all of the states or, on a validation error, none
ReplaceStates(cats, states) ==
    IF \A n \in DOMAIN states : ValidPersistedCategory(states[n])
    THEN [categories |->
            [n \in DOMAIN states |->
                [NewCategory EXCEPT !.tokens = states[n].Tokens, !.tally = states[n].Tally]],
          probabilitiesDirty |-> TRUE]
    ELSE cats

\* encoding/gob sends no field that holds its zero value (0, an empty map)
GobEncodeCategory(cat) ==
    [sentTokens |-> DOMAIN cat.Tokens # {}, Tokens |-> cat.Tokens,
     sentTally |-> cat.Tally # 0, Tally |-> cat.Tally]

GobEncode(state) ==
    [sentVersion |-> state.Version # 0, Version |-> state.Version,
     sentCategories |-> DOMAIN state.Categories # {},
     Categories |-> [n \in DOMAIN state.Categories |-> GobEncodeCategory(state.Categories[n])]]

\* a field that was not sent keeps the zero value of the receiving struct
GobDecodeCategory(enc) ==
    [Tokens |-> IF enc.sentTokens THEN enc.Tokens ELSE EmptyMap,
     Tally |-> IF enc.sentTally THEN enc.Tally ELSE 0]

GobDecode(enc) ==
    [Version |-> IF enc.sentVersion THEN enc.Version ELSE 0,
     Categories |-> IF enc.sentCategories
                    THEN [n \in DOMAIN enc.Categories |-> GobDecodeCategory(enc.Categories[n])]
                    ELSE EmptyMap]

\* what Save writes for a store: the version tag and the exported states, gob-encoded
SavedBytes(cats) ==
    GobEncode([Version |-> persistedModelVersion, Categories |-> ExportStates(cats)])

PCat(tokens, tally) == [Tokens |-> tokens, Tally |-> tally]

One(k, v) == MapPut(EmptyMap, k, v)

\* model states that pass validateModelState and hold what they declare
ValidStates ==
    { [Version |-> 1, Categories |-> EmptyMap],
      [Version |-> 1, Categories |-> One("a", PCat(One("x", 1), 1))],
      [Version |-> 1, Categories |-> MapPut(One("a", PCat(One("x", 2), 2)),
                                            "b", PCat(MapPut(One("x", 1), "y", 1), 2))],
      [Version |-> 1, Categories |-> One("b", PCat(EmptyMap, 0))] }

\* model states that break one rule of the persisted snapshot each
InvalidStates ==
    { [Version |-> 2, Categories |-> One("a", PCat(One("x", 1), 1))],
      [Version |-> 0, Categories |-> EmptyMap],
      [Version |-> 1, Categories |-> One("a!", PCat(One("x", 1), 1))],
      [Version |-> 1, Categories |-> One("a", PCat(EmptyMap, -1))],
      [Version |-> 1, Categories |-> One("a", PCat(One("", 1), 1))],
      [Version |-> 1, Categories |-> One("a", PCat(One("x", 0), 0))],
      [Version |-> 1, Categories |-> One("a", PCat(One("x", 2), 1))],
      [Version |-> 1, Categories |-> MapPut(One("b", PCat(One("y", 1), 1)),
                                            "a", PCat(One("x", 1), 2))],
      [Version |-> 1, Categories |->
          One("a", PCat(MapPut(MapPut(One("x", MaxInt), "y", MaxInt), "z", 2), 0))] }

\* what a reader handed to Load delivers
NilReader == [kind |-> "nil", bytes |-> GobEncode([Version |-> 0, Categories |-> EmptyMap])]

GarbageReader == [kind |-> "garbage", bytes |-> GobEncode([Version |-> 0, Categories |-> EmptyMap])]

GobReader(state) == [kind |-> "gob", bytes |-> GobEncode(state)]

Readers == {NilReader, GarbageReader} \cup {GobReader(s) : s \in ValidStates \cup InvalidStates}

\* what a writer handed to Save does
Writers == {"nil", "ok", "fail"}

-----------------------------------------------------------------------------
(* The callers *)

AnyCall == [op |-> "any", name |-> "", text |-> <<>>]

Call(op, name, text) == [op |-> op, name |-> name, text |-> text]

EmptyState == [Version |-> 0, Categories |-> EmptyMap]

\* the locals of a caller that is in no call
LocIdle ==
    [op |-> "none", name |-> "", text |-> <<>>, occ |-> EmptyMap, rest |-> {},
     err |-> ErrNone, tally |-> 0, untrain |-> FALSE,
     reader |-> NilReader, cats |-> NewCategories,
     writer |-> "nil", state |-> EmptyState, out |-> GobEncode(EmptyState),
     probabilities |-> EmptyMap, priors |-> EmptyMap, scores |-> EmptyMap,
     classification |-> NoClassification, summaries |-> EmptyMap,
     path |-> "", tempPath |-> "", before |-> [kind |-> "absent"], steps |-> <<>>,
     shared |-> FALSE, word |-> "", count |-> 0]

\* token counts and tallies of a store, without the cached priors
Data(cats) ==
    [n \in DOMAIN cats.categories |->
        [tokens |-> cats.categories[n].tokens, tally |-> cats.categories[n].tally]]

\* the priors a reader finds in the store
PriorsOf(cats) ==
    [n \in DOMAIN cats.categories |->
        <<GetProbInCat(cats.categories[n]), GetProbNotInCat(cats.categories[n])>>]

\* sync.RWMutex: Lock waits for the writer and for every reader to leave
CanLock == mu.writer = NoProc /\ mu.readers = {}

\* sync.RWMutex: RLock waits for the writer to leave
CanRLock == mu.writer = NoProc

Idle(p) == p \in procs /\ pc[p] = "idle"

Free(p) == Idle(p) /\ plan[p] = AnyCall

Goto(p, label) == pc' = [pc EXCEPT ![p] = label]

TallyOf(cats, name) ==
    IF name \in DOMAIN cats.categories THEN GetTally(cats.categories[name]) ELSE 0

-----------------------------------------------------------------------------
(* The file system SaveToFile works on *)

\* the names os.CreateTemp can pick for ".gobayes-*" in the target's directory
TempNames == {"t1", "t2"}

defaultModelFilePath == "/tmp/gobayes.gob"

\* absolute paths a model can be saved to
DestPaths == {"/m", defaultModelFilePath}

\* no file at a path
Absent == [kind |-> "absent"]

\* a file nobody has open: what was written to it, and whether the encoding was written to its end
FileOf(bytes, complete) == [kind |-> "file", bytes |-> bytes, complete |-> complete]

\* a file that caller p has open for writing; its content is fs.open[p]
OpenBy(p) == [kind |-> "open", by |-> p]

\* a file that has been created and not written to
EmptyFile == FileOf(GobEncode(EmptyState), FALSE)

\* a directory without files, no file open, no rename done
NoFiles ==
    [dir |-> [f \in DestPaths \cup TempNames |-> Absent],
     open |-> [p \in AllProcs |-> EmptyFile],
     last |-> [by |-> NoProc, path |-> "", state |-> EmptyState]]

\* what a reader of the path finds
ContentAt(files, path) ==
    IF files.dir[path].kind = "open" THEN files.open[files.dir[path].by] ELSE files.dir[path]

-----------------------------------------------------------------------------
(* Classifier.Train and Classifier.Untrain *)

\* c.mu.Lock() at the head of Train (untrain = FALSE) or Untrain (untrain = TRUE)
TrainCall(p, untrain, name, text) ==
    /\ Idle(p)
    /\ \/ /\ plan[p] = AnyCall
          /\ untrain \/ TallyOf(categories, name) + Len(text) <= MaxTally
       \/ /\ p \in pending
          /\ plan[p] = Call(IF untrain THEN "Untrain" ELSE "Train", name, text)
    /\ CanLock
    /\ mu' = [mu EXCEPT !.writer = p]
    /\ Goto(p, "t_match")
    /\ loc' = [loc EXCEPT ![p] = [LocIdle EXCEPT !.op = IF untrain THEN "Untrain" ELSE "Train",
                                                 !.untrain = untrain,
                                                 !.name = name, !.text = text]]
    /\ pending' = pending \ {p}
    /\ UNCHANGED <<categories, procs, inputs, plan, start, committed, fs>>

\* TMatch that returns on an invalid name without the deferred Unlock
TMatchReturningLocked(p) ==
    /\ pc[p] = "t_match"
    /\ IF ~categoryNamePattern(loc[p].name)
       THEN /\ loc' = [loc EXCEPT ![p].err = ErrInvalidCategoryName]
            /\ Goto(p, "ret")
            /\ UNCHANGED categories
       ELSE /\ categories' = GetCategory(categories, loc[p].name)
            /\ loc' = [loc EXCEPT ![p].occ = countTokenOccurrences(loc[p].text),
                                  ![p].rest = DOMAIN countTokenOccurrences(loc[p].text)]
            /\ Goto(p, "t_loop")
    /\ UNCHANGED <<mu, procs, inputs, plan, pending, start, committed, fs>>

\* TMatch without the check of the category name
TMatchAnyName(p) ==
    /\ pc[p] = "t_match"
    /\ categories' = GetCategory(categories, loc[p].name)
    /\ loc' = [loc EXCEPT ![p].occ = countTokenOccurrences(loc[p].text),
                          ![p].rest = DOMAIN countTokenOccurrences(loc[p].text)]
    /\ Goto(p, "t_loop")
    /\ UNCHANGED <<mu, procs, inputs, plan, pending, start, committed, fs>>

\* the name check, GetCategory, the tokenizer and countTokenOccurrences
TMatch(p) ==
    /\ pc[p] = "t_match"
    /\ IF ~categoryNamePattern(loc[p].name)
       THEN /\ loc' = [loc EXCEPT ![p].err = ErrInvalidCategoryName]
            /\ Goto(p, "w_unlock")
            /\ UNCHANGED categories
       ELSE /\ categories' = GetCategory(categories, loc[p].name)
            /\ loc' = [loc EXCEPT ![p].occ = countTokenOccurrences(loc[p].text),
                                  ![p].rest = DOMAIN countTokenOccurrences(loc[p].text)]
            /\ Goto(p, "t_loop")
    /\ UNCHANGED <<mu, procs, inputs, plan, pending, start, committed, fs>>

\* one iteration of for token, count := range occurrences
TLoop(p) ==
    /\ pc[p] = "t_loop"
    /\ \E w \in loc[p].rest :
          /\ categories' =
                [categories EXCEPT !.categories[loc[p].name] =
                    IF loc[p].untrain THEN UntrainToken(@, w, loc[p].occ[w])
                                      ELSE TrainToken(@, w, loc[p].occ[w])]
          /\ loc' = [loc EXCEPT ![p].rest = @ \ {w}]
    /\ UNCHANGED <<mu, pc, procs, inputs, plan, pending, start, committed, fs>>

\* c.cleanUpCategory(cat) once the loop has ended
TClean(p) ==
    /\ pc[p] = "t_loop"
    /\ loc[p].rest = {}
    /\ categories' = cleanUpCategory(categories, loc[p].name)
    /\ loc' = [loc EXCEPT ![p].tally = GetTally(categories.categories[loc[p].name])]
    /\ Goto(p, "t_ensure")
    /\ UNCHANGED <<mu, procs, inputs, plan, pending, start, committed, fs>>

\* c.categories.EnsureCategoryProbabilities() at the end of Train and Untrain
TEnsure(p) ==
    /\ pc[p] = "t_ensure"
    /\ categories' = EnsureCategoryProbabilities(categories)
    /\ Goto(p, "w_unlock")
    /\ UNCHANGED <<mu, loc, procs, inputs, plan, pending, start, committed, fs>>

\* c.mu.Unlock(), deferred in Train, Untrain and Flush, explicit in Load
WUnlock(p) ==
    /\ pc[p] = "w_unlock"
    /\ mu' = [mu EXCEPT !.writer = NoProc]
    /\ committed' = Data(categories)
    /\ Goto(p, "idle")
    /\ loc' = [loc EXCEPT ![p] = LocIdle]
    /\ UNCHANGED <<categories, procs, inputs, plan, pending, start, fs>>

\* a call that took no lock, or released it early, returns to its caller
Return(p) ==
    /\ pc[p] = "ret"
    /\ Goto(p, "idle")
    /\ loc' = [loc EXCEPT ![p] = LocIdle]
    /\ UNCHANGED <<categories, mu, procs, inputs, plan, pending, start, committed, fs>>

-----------------------------------------------------------------------------
(* Category.TrainToken and Category.UntrainToken called on a category directly *)

\* cat := cats.GetCategory(name); err := cat.TrainToken(word, count), or
\* cat.UntrainToken(word, count); loc[p].cats is the store before the call on
\* the category
CategoryTokenCall(p, untrain, name, word, count) ==
    /\ Free(p)
    /\ CanLock
    /\ untrain \/ count <= 0 \/ TallyOf(categories, name) + count <= MaxTally
    /\ categories' =
          [GetCategory(categories, name) EXCEPT !.categories[name] =
              IF untrain THEN UntrainToken(@, word, count)
                         ELSE TrainToken(@, word, count)]
    /\ loc' = [loc EXCEPT ![p] =
                  [LocIdle EXCEPT !.op = IF untrain THEN "UntrainToken" ELSE "TrainToken",
                                  !.name = name, !.word = word, !.count = count,
                                  !.cats = GetCategory(categories, name),
                                  !.err = IF untrain THEN UntrainTokenErr(count)
                                                     ELSE TrainTokenErr(count)]]
    /\ Goto(p, "ret")
    /\ UNCHANGED <<mu, procs, inputs, plan, pending, start, committed, fs>>

-----------------------------------------------------------------------------
(* Classifier.Flush *)

FlushCall(p) ==
    /\ Idle(p)
    /\ \/ plan[p] = AnyCall
       \/ p \in pending /\ plan[p] = Call("Flush", "", <<>>)
    /\ CanLock
    /\ mu' = [mu EXCEPT !.writer = p]
    /\ Goto(p, "f_body")
    /\ loc' = [loc EXCEPT ![p] = [LocIdle EXCEPT !.op = "Flush"]]
    /\ pending' = pending \ {p}
    /\ UNCHANGED <<categories, procs, inputs, plan, start, committed, fs>>

\* Flush that recomputes the priors and keeps the categories
FBodyKeeping(p) ==
    /\ pc[p] = "f_body"
    /\ categories' = EnsureCategoryProbabilities(categories)
    /\ Goto(p, "w_unlock")
    /\ UNCHANGED <<mu, loc, procs, inputs, plan, pending, start, committed, fs>>

FBody(p) ==
    /\ pc[p] = "f_body"
    /\ categories' = EnsureCategoryProbabilities(NewCategories)
    /\ Goto(p, "w_unlock")
    /\ UNCHANGED <<mu, loc, procs, inputs, plan, pending, start, committed, fs>>

-----------------------------------------------------------------------------
(* Classifier.Load *)

\* the nil check; gob.NewDecoder(r).Decode(&state) follows for any other reader
LoadCall(p, r) ==
    /\ Free(p)
    /\ IF r.kind = "nil"
       THEN /\ loc' = [loc EXCEPT ![p] = [LocIdle EXCEPT !.op = "Load", !.reader = r,
                                                         !.err = errNilReader]]
            /\ Goto(p, "ret")
       ELSE /\ loc' = [loc EXCEPT ![p] = [LocIdle EXCEPT !.op = "Load", !.reader = r]]
            /\ Goto(p, "l_decode")
    /\ UNCHANGED <<categories, mu, procs, inputs, plan, pending, start, committed, fs>>

\* Load with the slip of emptying the classifier before the snapshot is validated
LDecodeResetting(p) ==
    /\ pc[p] = "l_decode"
    /\ IF loc[p].reader.kind # "gob"
       THEN /\ loc' = [loc EXCEPT ![p].err = errDecode]
            /\ Goto(p, "ret")
            /\ UNCHANGED categories
       ELSE \E err \in validateModelState(GobDecode(loc[p].reader.bytes)) :
               IF err # ErrNone
               THEN /\ loc' = [loc EXCEPT ![p].err = err,
                                          ![p].state = GobDecode(loc[p].reader.bytes)]
                    /\ Goto(p, "ret")
                    /\ categories' = NewCategories
               ELSE /\ loc' = [loc EXCEPT
                          ![p].state = GobDecode(loc[p].reader.bytes),
                          ![p].cats = MarkProbabilitiesDirty(
                                         ReplaceStates(NewCategories,
                                             GobDecode(loc[p].reader.bytes).Categories))]
                    /\ Goto(p, "l_lock")
                    /\ UNCHANGED categories
    /\ UNCHANGED <<mu, procs, inputs, plan, pending, start, committed, fs>>

\* Decode, validateModelState, NewCategories, ReplaceStates, MarkProbabilitiesDirty
LDecode(p) ==
    /\ pc[p] = "l_decode"
    /\ IF loc[p].reader.kind # "gob"
       THEN /\ loc' = [loc EXCEPT ![p].err = errDecode]
            /\ Goto(p, "ret")
       ELSE \E err \in validateModelState(GobDecode(loc[p].reader.bytes)) :
               IF err # ErrNone
               THEN /\ loc' = [loc EXCEPT ![p].err = err,
                                          ![p].state = GobDecode(loc[p].reader.bytes)]
                    /\ Goto(p, "ret")
               ELSE /\ loc' = [loc EXCEPT
                          ![p].state = GobDecode(loc[p].reader.bytes),
                          ![p].cats = MarkProbabilitiesDirty(
                                         ReplaceStates(NewCategories,
                                             GobDecode(loc[p].reader.bytes).Categories))]
                    /\ Goto(p, "l_lock")
    /\ UNCHANGED <<categories, mu, procs, inputs, plan, pending, start, committed, fs>>

\* Load with the slip of swapping without waiting for the lock
LLockWithoutLock(p) ==
    /\ pc[p] = "l_lock"
    /\ mu' = [mu EXCEPT !.writer = p]
    /\ Goto(p, "l_swap")
    /\ UNCHANGED <<categories, loc, procs, inputs, plan, pending, start, committed, fs>>

\* c.mu.Lock() of Load
LLock(p) ==
    /\ pc[p] = "l_lock"
    /\ CanLock
    /\ mu' = [mu EXCEPT !.writer = p]
    /\ Goto(p, "l_swap")
    /\ UNCHANGED <<categories, loc, procs, inputs, plan, pending, start, committed, fs>>

\* c.Categories = *cats
LSwap(p) ==
    /\ pc[p] = "l_swap"
    /\ categories' = loc[p].cats
    /\ Goto(p, "w_unlock")
    /\ UNCHANGED <<mu, loc, procs, inputs, plan, pending, start, committed, fs>>

-----------------------------------------------------------------------------
(* Classifier.Score and Classifier.Classify *)

\* Score and Classify with the slip of reading without waiting for the lock
ScoreCallWithoutLock(p, classify, text) ==
    /\ Idle(p)
    /\ \/ plan[p] = AnyCall
       \/ p \in pending /\ plan[p] = Call(IF classify THEN "Classify" ELSE "Score", "", text)
    /\ mu' = [mu EXCEPT !.readers = @ \cup {p}]
    /\ Goto(p, "s_body")
    /\ loc' = [loc EXCEPT ![p] = [LocIdle EXCEPT !.op = IF classify THEN "Classify" ELSE "Score",
                                                 !.text = text]]
    /\ pending' = pending \ {p}
    /\ UNCHANGED <<categories, procs, inputs, plan, start, committed, fs>>

\* c.mu.RLock() at the head of Score (classify = FALSE) or Classify (classify = TRUE)
ScoreCall(p, classify, text) ==
    /\ Idle(p)
    /\ \/ plan[p] = AnyCall
       \/ p \in pending /\ plan[p] = Call(IF classify THEN "Classify" ELSE "Score", "", text)
    /\ CanRLock
    /\ mu' = [mu EXCEPT !.readers = @ \cup {p}]
    /\ Goto(p, "s_body")
    /\ loc' = [loc EXCEPT ![p] = [LocIdle EXCEPT !.op = IF classify THEN "Classify" ELSE "Score",
                                                 !.text = text]]
    /\ pending' = pending \ {p}
    /\ UNCHANGED <<categories, procs, inputs, plan, start, committed, fs>>

\* scoreUnlocked and, in Classify, the choice of the best category
SBody(p) ==
    /\ pc[p] = "s_body"
    /\ loc' = [loc EXCEPT ![p].priors = PriorsOf(categories),
                          ![p].scores = scoreUnlocked(categories, loc[p].text),
                          ![p].classification =
                                IF loc[p].op = "Classify"
                                THEN ClassifyResult(categories, loc[p].text)
                                ELSE NoClassification]
    /\ Goto(p, "r_unlock")
    /\ UNCHANGED <<categories, mu, procs, inputs, plan, pending, start, committed, fs>>

\* c.mu.RUnlock(), deferred in Score, Classify and Summaries
RUnlock(p) ==
    /\ pc[p] = "r_unlock"
    /\ mu' = [mu EXCEPT !.readers = @ \ {p}]
    /\ Goto(p, "idle")
    /\ loc' = [loc EXCEPT ![p] = LocIdle]
    /\ UNCHANGED <<categories, procs, inputs, plan, pending, start, committed, fs>>

-----------------------------------------------------------------------------
(* Classifier.Summaries: Categories.Summaries under the read lock *)

SummariesCall(p) ==
    /\ Free(p)
    /\ CanRLock
    /\ mu' = [mu EXCEPT !.readers = @ \cup {p}]
    /\ Goto(p, "m_ensure")
    /\ loc' = [loc EXCEPT ![p] = [LocIdle EXCEPT !.op = "Summaries"]]
    /\ UNCHANGED <<categories, procs, inputs, plan, pending, start, committed, fs>>

\* EnsureCategoryProbabilities: the dirty check and the loop that reads the tallies
MEnsure(p) ==
    /\ pc[p] = "m_ensure"
    /\ IF ~categories.probabilitiesDirty
       THEN /\ Goto(p, "m_copy")
            /\ UNCHANGED loc
       ELSE /\ loc' = [loc EXCEPT ![p].probabilities =
                                      [n \in Names(categories) |-> Probability(categories, n)],
                                  ![p].rest = Names(categories)]
            /\ Goto(p, "m_set")
    /\ UNCHANGED <<categories, mu, procs, inputs, plan, pending, start, committed, fs>>

\* EnsureCategoryProbabilities: one cats.SetCategoryProbabilities of the second loop
MSet(p) ==
    /\ pc[p] = "m_set"
    /\ \E n \in loc[p].rest :
          /\ categories' = SetCategoryProbabilities(categories, n, loc[p].probabilities[n],
                                                    FSub(FOne, loc[p].probabilities[n]))
          /\ loc' = [loc EXCEPT ![p].rest = @ \ {n}]
    /\ UNCHANGED <<mu, pc, procs, inputs, plan, pending, start, committed, fs>>

\* EnsureCategoryProbabilities: cats.probabilitiesDirty = false
MClear(p) ==
    /\ pc[p] = "m_set"
    /\ loc[p].rest = {}
    /\ categories' = [categories EXCEPT !.probabilitiesDirty = FALSE]
    /\ Goto(p, "m_copy")
    /\ UNCHANGED <<mu, loc, procs, inputs, plan, pending, start, committed, fs>>

\* Categories.Summaries handing out the store's own map and categories
MCopySharing(p) ==
    /\ pc[p] = "m_copy"
    /\ loc' = [loc EXCEPT ![p].summaries = SummariesSnapshot(categories),
                          ![p].priors = PriorsOf(categories),
                          ![p].shared = TRUE]
    /\ Goto(p, "r_unlock")
    /\ UNCHANGED <<categories, mu, procs, inputs, plan, pending, start, committed, fs>>

\* the snapshot map Categories.Summaries returns: a map made anew, its entries
\* CategorySummary values built from the getters, sharing nothing with the store
MCopy(p) ==
    /\ pc[p] = "m_copy"
    /\ loc' = [loc EXCEPT ![p].summaries = SummariesSnapshot(categories),
                          ![p].priors = PriorsOf(categories)]
    /\ Goto(p, "r_unlock")
    /\ UNCHANGED <<categories, mu, procs, inputs, plan, pending, start, committed, fs>>

\* the deferred c.mu.RUnlock() of Summaries; the caller receives the map
MReturn(p) ==
    /\ pc[p] = "r_unlock"
    /\ loc[p].op = "Summaries"
    /\ mu' = [mu EXCEPT !.readers = @ \ {p}]
    /\ Goto(p, "ret")
    /\ UNCHANGED <<categories, loc, procs, inputs, plan, pending, start, committed, fs>>

\* the caller changes the map it received: entry := snapshot[n];
\* entry.TokenTally = 999; snapshot[n] = entry, or delete(snapshot, n).  The
\* write reaches the store only through a map or an entry shared with it.
MutateSummaries(p, n, how) ==
    /\ pc[p] = "ret"
    /\ loc[p].op = "Summaries"
    /\ n \in DOMAIN loc[p].summaries
    /\ loc' = [loc EXCEPT ![p].summaries =
                  IF how = "delete" THEN MapDelete(@, n)
                  ELSE [@ EXCEPT ![n].TokenTally = 999]]
    /\ categories' =
          IF loc[p].shared /\ n \in Names(categories)
          THEN IF how = "delete"
               THEN [categories EXCEPT !.categories = MapDelete(@, n)]
               ELSE [categories EXCEPT !.categories[n].tally = 999]
          ELSE categories
    /\ UNCHANGED <<mu, pc, procs, inputs, plan, pending, start, committed, fs>>

-----------------------------------------------------------------------------
(* Classifier.Save *)

\* the nil check and c.mu.RLock()
SaveCall(p, w) ==
    /\ Free(p)
    /\ IF w = "nil"
       THEN /\ loc' = [loc EXCEPT ![p] = [LocIdle EXCEPT !.op = "Save", !.writer = w,
                                                         !.err = errNilWriter]]
            /\ Goto(p, "ret")
            /\ UNCHANGED mu
       ELSE /\ CanRLock
            /\ mu' = [mu EXCEPT !.readers = @ \cup {p}]
            /\ loc' = [loc EXCEPT ![p] = [LocIdle EXCEPT !.op = "Save", !.writer = w]]
            /\ Goto(p, "v_export")
    /\ UNCHANGED <<categories, procs, inputs, plan, pending, start, committed, fs>>

\* state := modelState{Version: ..., Categories: c.Categories.ExportStates()}
VExport(p) ==
    /\ pc[p] = "v_export"
    /\ loc' = [loc EXCEPT ![p].state = [Version |-> persistedModelVersion,
                                        Categories |-> ExportStates(categories)]]
    /\ Goto(p, "v_runlock")
    /\ UNCHANGED <<categories, mu, procs, inputs, plan, pending, start, committed, fs>>

\* Save with the slip of keeping the read lock while it encodes and writes
VRUnlockAfterEncode(p) ==
    /\ pc[p] = "v_runlock"
    /\ Goto(p, "v_encode")
    /\ UNCHANGED <<categories, mu, loc, procs, inputs, plan, pending, start, committed, fs>>

\* c.mu.RUnlock() of Save, before the encoding
VRUnlock(p) ==
    /\ pc[p] = "v_runlock"
    /\ mu' = [mu EXCEPT !.readers = @ \ {p}]
    /\ Goto(p, "v_encode")
    /\ UNCHANGED <<categories, loc, procs, inputs, plan, pending, start, committed, fs>>

\* Save with the slip of encoding the live maps instead of the copy taken under the lock
VEncodeLiveStore(p) ==
    /\ pc[p] = "v_encode"
    /\ IF loc[p].writer = "fail"
       THEN loc' = [loc EXCEPT ![p].err = errEncode]
       ELSE loc' = [loc EXCEPT ![p].out = SavedBytes(categories)]
    /\ Goto(p, "ret")
    /\ UNCHANGED <<categories, mu, procs, inputs, plan, pending, start, committed, fs>>

\* gob.NewEncoder(w).Encode(state)
VEncode(p) ==
    /\ pc[p] = "v_encode"
    /\ IF loc[p].writer = "fail"
       THEN loc' = [loc EXCEPT ![p].err = errEncode]
       ELSE loc' = [loc EXCEPT ![p].out = GobEncode(loc[p].state)]
    /\ Goto(p, "ret")
    /\ UNCHANGED <<categories, mu, procs, inputs, plan, pending, start, committed, fs>>

-----------------------------------------------------------------------------
(* Classifier.SaveToFile *)

errPathNotAbsolute == "path must be absolute"

errCreateTemp == "create temp file"

errSync == "sync temp file"

errClose == "close temp file"

errRename == "rename temp file"

\* resolveModelPath without the default for the empty path
resolveModelPathKeepingEmpty(path) == path

resolveModelPath(path) == IF path = "" THEN defaultModelFilePath ELSE path

\* filepath.IsAbs
IsAbs(path) == path \in DestPaths

\* tempFile.Close(): the file keeps what was written to it
CloseFile(files, p) ==
    [files EXCEPT !.dir = [f \in DOMAIN files.dir |->
                              IF files.dir[f] = OpenBy(p) THEN files.open[p] ELSE files.dir[f]],
                  !.open[p] = EmptyFile]

\* resolveModelPath and the filepath.IsAbs check
XCall(p, path) ==
    /\ Free(p)
    /\ IF ~IsAbs(resolveModelPath(path))
       THEN /\ loc' = [loc EXCEPT ![p] = [LocIdle EXCEPT !.op = "SaveToFile",
                                                         !.path = resolveModelPath(path),
                                                         !.err = errPathNotAbsolute]]
            /\ Goto(p, "ret")
       ELSE /\ loc' = [loc EXCEPT ![p] =
                          [LocIdle EXCEPT !.op = "SaveToFile",
                                          !.path = resolveModelPath(path),
                                          !.before = ContentAt(fs, resolveModelPath(path))]]
            /\ Goto(p, "x_create")
    /\ UNCHANGED <<categories, mu, procs, inputs, plan, pending, start, committed, fs>>

\* createTemp(dir, ".gobayes-*"): a new, empty file under a name not in use;
\* defer removeFile(tempPath)
XCreate(p, ok) ==
    /\ pc[p] = "x_create"
    /\ IF ok
       THEN \E t \in TempNames :
               /\ fs.dir[t] = Absent
               /\ fs' = [fs EXCEPT !.dir[t] = OpenBy(p), !.open[p] = EmptyFile]
               /\ loc' = [loc EXCEPT ![p].tempPath = t, ![p].steps = <<"create">>]
               /\ Goto(p, "x_rlock")
       ELSE /\ loc' = [loc EXCEPT ![p].err = errCreateTemp]
            /\ Goto(p, "ret")
            /\ UNCHANGED fs
    /\ UNCHANGED <<categories, mu, procs, inputs, plan, pending, start, committed>>

\* c.Save(tempFile): c.mu.RLock()
XRLock(p) ==
    /\ pc[p] = "x_rlock"
    /\ CanRLock
    /\ mu' = [mu EXCEPT !.readers = @ \cup {p}]
    /\ Goto(p, "x_export")
    /\ UNCHANGED <<categories, loc, procs, inputs, plan, pending, start, committed, fs>>

\* c.Save(tempFile): the modelState with the exported states
XExport(p) ==
    /\ pc[p] = "x_export"
    /\ loc' = [loc EXCEPT ![p].state = [Version |-> persistedModelVersion,
                                        Categories |-> ExportStates(categories)]]
    /\ Goto(p, "x_runlock")
    /\ UNCHANGED <<categories, mu, procs, inputs, plan, pending, start, committed, fs>>

\* c.Save(tempFile): c.mu.RUnlock()
XRUnlock(p) ==
    /\ pc[p] = "x_runlock"
    /\ mu' = [mu EXCEPT !.readers = @ \ {p}]
    /\ Goto(p, "x_write")
    /\ UNCHANGED <<categories, loc, procs, inputs, plan, pending, start, committed, fs>>

\* the error of Encode ignored: the call goes on with what was written
XWriteIgnoringError(p, ok) ==
    /\ pc[p] = "x_write"
    /\ fs' = [fs EXCEPT !.open[p] = FileOf(GobEncode(loc[p].state), FALSE)]
    /\ Goto(p, IF ok THEN "x_write_end" ELSE "x_sync")
    /\ UNCHANGED <<categories, mu, loc, procs, inputs, plan, pending, start, committed>>

\* gob.NewEncoder(tempFile).Encode(state): the first Write to the file
XWrite(p, ok) ==
    /\ pc[p] = "x_write"
    /\ IF ok
       THEN /\ fs' = [fs EXCEPT !.open[p] = FileOf(GobEncode(loc[p].state), FALSE)]
            /\ Goto(p, "x_write_end")
            /\ UNCHANGED loc
       ELSE /\ loc' = [loc EXCEPT ![p].err = errEncode]
            /\ Goto(p, "x_close_err")
            /\ UNCHANGED fs
    /\ UNCHANGED <<categories, mu, procs, inputs, plan, pending, start, committed>>

\* gob.NewEncoder(tempFile).Encode(state): the Write that ends the encoding
XWriteEnd(p, ok) ==
    /\ pc[p] = "x_write_end"
    /\ IF ok
       THEN /\ fs' = [fs EXCEPT !.open[p] = FileOf(GobEncode(loc[p].state), TRUE)]
            /\ loc' = [loc EXCEPT ![p].steps = Append(@, "write")]
            /\ Goto(p, "x_sync")
       ELSE /\ loc' = [loc EXCEPT ![p].err = errEncode]
            /\ Goto(p, "x_close_err")
            /\ UNCHANGED fs
    /\ UNCHANGED <<categories, mu, procs, inputs, plan, pending, start, committed>>

\* tempFile.Sync()
XSync(p, ok) ==
    /\ pc[p] = "x_sync"
    /\ IF ok
       THEN /\ loc' = [loc EXCEPT ![p].steps = Append(@, "sync")]
            /\ Goto(p, "x_close")
       ELSE /\ loc' = [loc EXCEPT ![p].err = errSync]
            /\ Goto(p, "x_close_err")
    /\ UNCHANGED <<categories, mu, procs, inputs, plan, pending, start, committed, fs>>

\* tempFile.Close() on the way out after a failed Save or Sync
XCloseOnError(p) ==
    /\ pc[p] = "x_close_err"
    /\ fs' = CloseFile(fs, p)
    /\ Goto(p, "x_remove")
    /\ UNCHANGED <<categories, mu, loc, procs, inputs, plan, pending, start, committed>>

\* tempFile.Close()
XClose(p, ok) ==
    /\ pc[p] = "x_close"
    /\ fs' = CloseFile(fs, p)
    /\ IF ok
       THEN /\ loc' = [loc EXCEPT ![p].steps = Append(@, "close")]
            /\ Goto(p, "x_rename")
       ELSE /\ loc' = [loc EXCEPT ![p].err = errClose]
            /\ Goto(p, "x_remove")
    /\ UNCHANGED <<categories, mu, procs, inputs, plan, pending, start, committed>>

\* renameFile(tempPath, path): fails when there is no file at tempPath
XRename(p, ok) ==
    /\ pc[p] = "x_rename"
    /\ IF ok /\ fs.dir[loc[p].tempPath] # Absent
       THEN /\ fs' = [fs EXCEPT !.dir[loc[p].path] = fs.dir[loc[p].tempPath],
                                !.dir[loc[p].tempPath] = Absent,
                                !.last = [by |-> p, path |-> loc[p].path,
                                          state |-> loc[p].state]]
            /\ loc' = [loc EXCEPT ![p].steps = Append(@, "rename")]
       ELSE /\ loc' = [loc EXCEPT ![p].err = errRename]
            /\ UNCHANGED fs
    /\ Goto(p, "x_remove")
    /\ UNCHANGED <<categories, mu, procs, inputs, plan, pending, start, committed>>

\* SaveToFile without the deferred removeFile
XRemoveNothing(p) ==
    /\ pc[p] = "x_remove"
    /\ Goto(p, "ret")
    /\ UNCHANGED <<categories, mu, loc, procs, inputs, plan, pending, start, committed, fs>>

\* the deferred removeFile(tempPath), run on every return after createTemp
XRemove(p) ==
    /\ pc[p] = "x_remove"
    /\ fs' = [fs EXCEPT !.dir[loc[p].tempPath] = Absent]
    /\ Goto(p, "ret")
    /\ UNCHANGED <<categories, mu, loc, procs, inputs, plan, pending, start, committed>>

-----------------------------------------------------------------------------
(* The specifications *)

InitWith(ps, in) ==
    /\ inputs = in
    /\ categories = NewCategories
    /\ mu = [writer |-> NoProc, readers |-> {}]
    /\ pc = [p \in AllProcs |-> "idle"]
    /\ loc = [p \in AllProcs |-> LocIdle]
    /\ procs = ps
    /\ plan = [p \in AllProcs |-> AnyCall]
    /\ pending = {}
    /\ start = NewCategories
    /\ committed = Data(NewCategories)
    /\ fs = NoFiles

\* NewClassifier, used by one caller at a time
Init ==
    InitWith({"p1"},
             [names |-> ValidNames \cup InvalidNames, texts |-> Texts,
              readers |-> Readers, writers |-> Writers])

\* NewClassifier, shared by two concurrent callers
InitConc ==
    InitWith({"p1", "p2"},
             [names |-> {"a", "a!"}, texts |-> {<<"x">>, <<"x", "y">>},
              readers |-> {GobReader([Version |-> 1,
                                      Categories |-> One("a", PCat(One("x", 1), 1))]),
                           GobReader([Version |-> 1,
                                      Categories |-> One("a", PCat(One("x", 2), 1))])},
              writers |-> {"ok"}])

Next ==
    \/ \E p \in procs, untrain \in BOOLEAN, name \in inputs.names,
          text \in inputs.texts : TrainCall(p, untrain, name, text)
    \/ \E p \in procs : TMatch(p)
    \/ \E p \in procs : TLoop(p)
    \/ \E p \in procs : TClean(p)
    \/ \E p \in procs : TEnsure(p)
    \/ \E p \in procs : WUnlock(p)
    \/ \E p \in procs : Return(p)
    \/ \E p \in procs : FlushCall(p)
    \/ \E p \in procs : FBody(p)
    \/ \E p \in procs, r \in inputs.readers : LoadCall(p, r)
    \/ \E p \in procs : LDecode(p)
    \/ \E p \in procs : LLock(p)
    \/ \E p \in procs : LSwap(p)
    \/ \E p \in procs, classify \in BOOLEAN, text \in inputs.texts : ScoreCall(p, classify, text)
    \/ \E p \in procs : SBody(p)
    \/ \E p \in procs : RUnlock(p)
    \/ \E p \in procs : SummariesCall(p)
    \/ \E p \in procs : MEnsure(p)
    \/ \E p \in procs : MSet(p)
    \/ \E p \in procs : MClear(p)
    \/ \E p \in procs : MCopy(p)
    \/ \E p \in procs, w \in inputs.writers : SaveCall(p, w)
    \/ \E p \in procs : VExport(p)
    \/ \E p \in procs : VRUnlock(p)
    \/ \E p \in procs : VEncode(p)

Spec == Init /\ [][Next]_vars

SpecConc == InitConc /\ [][Next]_vars

-----------------------------------------------------------------------------
(* A fixed set of Train and Untrain calls, issued concurrently *)

ProcOrder == <<"p1", "p2", "p3">>

PlanCalls ==
    {Call(op, name, text) : op \in {"Train", "Untrain"}, name \in {"a", "b"},
                            text \in {<<"x">>, <<"x", "y">>}}

\* stores that Train calls on a new classifier leave behind
StartStores ==
    { NewCategories,
      TrainUnderLock(NewCategories, FALSE, "a", <<"x", "y">>),
      TrainUnderLock(TrainUnderLock(NewCategories, FALSE, "a", <<"x", "y">>),
                     FALSE, "b", <<"x">>) }

InitOrder ==
    /\ procs = AllProcs
    /\ inputs = [names |-> {"a", "b"}, texts |-> {<<"x">>, <<"x", "y">>},
                 readers |-> {}, writers |-> {}]
    /\ start \in StartStores
    /\ categories = start
    /\ mu = [writer |-> NoProc, readers |-> {}]
    /\ pc = [p \in AllProcs |-> "idle"]
    /\ loc = [p \in AllProcs |-> LocIdle]
    /\ plan \in [AllProcs -> PlanCalls]
    /\ pending = AllProcs
    /\ committed = Data(start)
    /\ fs = NoFiles

NextOrder ==
    \/ \E p \in procs, untrain \in BOOLEAN, name \in inputs.names,
          text \in inputs.texts : TrainCall(p, untrain, name, text)
    \/ \E p \in procs : TMatch(p)
    \/ \E p \in procs : TLoop(p)
    \/ \E p \in procs : TClean(p)
    \/ \E p \in procs : TEnsure(p)
    \/ \E p \in procs : WUnlock(p)

SpecOrder == InitOrder /\ [][NextOrder]_vars

\* one caller that trains, untrains, scores and classifies
NextTrain ==
    \/ \E p \in procs, untrain \in BOOLEAN, name \in inputs.names,
          text \in inputs.texts : TrainCall(p, untrain, name, text)
    \/ \E p \in procs : TMatch(p)
    \/ \E p \in procs : TLoop(p)
    \/ \E p \in procs : TClean(p)
    \/ \E p \in procs : TEnsure(p)
    \/ \E p \in procs : WUnlock(p)
    \/ \E p \in procs, classify \in BOOLEAN, text \in inputs.texts : ScoreCall(p, classify, text)
    \/ \E p \in procs : SBody(p)
    \/ \E p \in procs : RUnlock(p)

SpecTrain == Init /\ [][NextTrain]_vars

\* the planned calls run one after the other, in the order of ProcOrder
RECURSIVE RunPlan(_, _)
RunPlan(cats, i) ==
    IF i > Len(ProcOrder) THEN cats
    ELSE RunPlan(TrainUnderLock(cats, plan[ProcOrder[i]].op = "Untrain",
                                plan[ProcOrder[i]].name, plan[ProcOrder[i]].text),
                 i + 1)

\* every planned call has been issued and has returned
PlanDone ==
    /\ \A p \in procs : plan[p] # AnyCall /\ pc[p] = "idle"
    /\ pending = {}

-----------------------------------------------------------------------------
(* Properties *)

\* positions at which a caller holds the write lock
WriteSection == {"t_match", "t_loop", "t_ensure", "w_unlock", "f_body", "l_swap"}

\* positions at which a caller holds the read lock
ReadSection ==
    {"s_body", "r_unlock", "m_ensure", "m_set", "m_copy", "v_export", "v_runlock",
     "x_export", "x_runlock"}

\* the priors that belong to the tallies now in the store
CurrentPriors(cats) ==
    [n \in Names(cats) |-> <<Probability(cats, n), FSub(FOne, Probability(cats, n))>>]

\* C1: every stored category's tally equals the sum of its token counts and is
\* never negative, whatever Train and Untrain calls were made.
TallyIsSumOfTokens ==
    \A n \in Names(categories) :
        /\ categories.categories[n].tally = SumValues(categories.categories[n].tokens)
        /\ categories.categories[n].tally >= 0

\* C1 witness: an Untrain of "x y" has lowered a category that held x twice.
TallyIsSumOfTokensWitness ==
    \E p \in procs :
        /\ pc[p] = "w_unlock"
        /\ loc[p].op = "Untrain"
        /\ loc[p].text = <<"x", "y">>
        /\ loc[p].name \in Names(categories)
        /\ loc[p].name \in DOMAIN committed
        /\ committed[loc[p].name].tokens = MapPut(One("x", 2), "y", 1)
        /\ categories.categories[loc[p].name].tokens = One("x", 1)

\* C2: when no write is under way and probabilitiesDirty is false, every stored
\* category's probInCat is its tally over the sum of all tallies (0 when that
\* sum is zero) and its probNotInCat is 1 - probInCat.
CleanPriorsAreCurrent ==
    (mu.writer = NoProc /\ ~categories.probabilitiesDirty)
        => PriorsOf(categories) = CurrentPriors(categories)

\* C3: the priors a Score or Classify call reads are those of the tallies in
\* the store at the time of the call.
ScoreReadsCurrentPriors ==
    \A p \in procs :
        (pc[p] = "r_unlock" /\ loc[p].op \in {"Score", "Classify"})
            => loc[p].priors = CurrentPriors(categories)

\* C4: once Train or Untrain has run its body for a valid name, the target
\* category is in the store if and only if its tally is greater than zero.
TargetStoredIffTallyPositive ==
    \A p \in procs :
        (pc[p] = "w_unlock" /\ loc[p].op \in {"Train", "Untrain"} /\ loc[p].err = ErrNone)
            => /\ (loc[p].name \in Names(categories)) <=> (loc[p].tally > 0)
               /\ loc[p].name \in Names(categories)
                    => GetTally(categories.categories[loc[p].name]) = loc[p].tally

\* C4 witness: an Untrain has brought a stored category to tally zero and the
\* category is gone.
TargetStoredIffTallyPositiveWitness ==
    \E p \in procs :
        /\ pc[p] = "w_unlock"
        /\ loc[p].op = "Untrain"
        /\ loc[p].err = ErrNone
        /\ loc[p].name \in DOMAIN committed
        /\ committed[loc[p].name].tally > 0
        /\ loc[p].tally = 0
        /\ loc[p].name \notin Names(categories)

\* C5: while a caller holds the write lock (Train, Untrain, Flush, the swap of
\* Load) no other caller is inside a locked section, reading or writing.
MutualExclusion ==
    \A p \in procs, q \in procs :
        (p # q /\ pc[p] \in WriteSection) => pc[q] \notin WriteSection \cup ReadSection

\* C5 witness: a Train is inside its loop while a Load waits for the lock.
MutualExclusionWitness ==
    \E p \in procs, q \in procs :
        /\ p # q
        /\ pc[p] = "t_loop"
        /\ loc[p].rest # {}
        /\ pc[q] = "l_lock"

\* C6: no step taken while the read lock is held changes the store (category
\* set, token counts, tallies, cached priors, dirty flag).
ReadLockedStepsWriteNothing ==
    [][mu.readers # {} => categories' = categories]_vars

\* C7: a caller holding the read lock sees the token counts and tallies exactly
\* as the last completed write left them: no partly applied sample, no target
\* of tally zero that still awaits its cleanup.
ReadersSeeCompletedWrites ==
    \A p \in procs : pc[p] \in ReadSection => Data(categories) = committed

\* C7 witness: a Score reads the store after a Train of the two-token sample
\* "x y", while another caller waits to write.
ReadersSeeCompletedWritesWitness ==
    \E p \in procs, q \in procs :
        /\ p # q
        /\ pc[p] = "r_unlock"
        /\ loc[p].op = "Score"
        /\ "a" \in DOMAIN committed
        /\ DOMAIN committed["a"].tokens = {"x", "y"}
        /\ pc[q] = "l_lock"

\* C8 as stated: whatever Train and Untrain calls are issued concurrently, the
\* final token counts and tallies are those of running them in one fixed order.
FinalStateIsOrderIndependent ==
    PlanDone => Data(categories) = Data(RunPlan(start, 1))

\* the planned calls are all Train calls, or all Untrain calls
PlanOfOneKind ==
    \/ \A p \in procs : plan[p].op = "Train"
    \/ \A p \in procs : plan[p].op = "Untrain"

\* C8 amended: when the concurrent calls are all Train calls, or all Untrain
\* calls, the final token counts and tallies are the same for every order in
\* which the calls acquire the lock.
SameKindCallsAreOrderIndependent ==
    (PlanDone /\ PlanOfOneKind) => Data(categories) = Data(RunPlan(start, 1))

\* C8 witness: three Train calls, two of them with different samples for the
\* same category, have all returned.
SameKindCallsAreOrderIndependentWitness ==
    /\ PlanDone
    /\ \A p \in procs : plan[p].op = "Train"
    /\ plan["p1"].name = plan["p2"].name
    /\ plan["p1"].text # plan["p2"].text
    /\ Names(categories) = {"a", "b"}

\* C9: no step of a Load that fails (nil reader, decode error, validation
\* error) changes the store: categories, counts, tallies, priors, dirty flag.
FailedLoadKeepsState ==
    [][(\E p \in procs : loc'[p].op = "Load" /\ pc'[p] \in {"l_decode", "ret"})
          => categories' = categories]_vars

\* C9 witness: a Load of a snapshot with a wrong tally has returned its error
\* on a classifier that holds trained categories.
FailedLoadKeepsStateWitness ==
    \E p \in procs :
        /\ pc[p] = "ret"
        /\ loc[p].op = "Load"
        /\ loc[p].err = errInvalidCategoryTally
        /\ Names(categories) = {"a", "b"}

\* a model state that breaks a rule of the persisted snapshot
BreaksSnapshotRule(state) ==
    \/ state.Version # persistedModelVersion
    \/ \E n \in DOMAIN state.Categories :
          \/ ~categoryNamePattern(n)
          \/ state.Categories[n].Tally < 0
          \/ \E t \in DOMAIN state.Categories[n].Tokens :
                t = "" \/ state.Categories[n].Tokens[t] <= 0
          \/ state.Categories[n].Tally # SumValues(state.Categories[n].Tokens)

\* C10: a Load whose snapshot has another version, an invalid category name, a
\* negative tally, an empty token, a token count below 1 or a tally that is
\* not the sum of the token counts ends with an error, before the swap.
LoadRejectsInvalidSnapshot ==
    \A p \in procs :
        (/\ loc[p].op = "Load"
         /\ loc[p].reader.kind = "gob"
         /\ pc[p] # "l_decode"
         /\ BreaksSnapshotRule(GobDecode(loc[p].reader.bytes)))
            => (pc[p] = "ret" /\ loc[p].err # ErrNone)

\* token counts and tallies a persisted snapshot declares, in the form of Data
StateData(states) ==
    [n \in DOMAIN states |-> [tokens |-> states[n].Tokens, tally |-> states[n].Tally]]

-----------------------------------------------------------------------------
(* Save followed by Load into a new classifier *)

\* the store of a new classifier after Load has read the bytes
LoadedStore(bytes) ==
    IF validateModelState(GobDecode(bytes)) = {ErrNone}
    THEN MarkProbabilitiesDirty(ReplaceStates(NewCategories, GobDecode(bytes).Categories))
    ELSE NewCategories

\* Categories.Summaries: EnsureCategoryProbabilities, then the snapshot
Summaries(cats) == SummariesSnapshot(EnsureCategoryProbabilities(cats))

\* original.Save(&buf); loaded := NewClassifier(); loaded.Load(&buf)
RoundTrip(p) ==
    /\ Free(p)
    /\ mu.writer = NoProc
    /\ loc' = [loc EXCEPT ![p] = [LocIdle EXCEPT !.op = "RoundTrip",
                                                 !.out = SavedBytes(categories),
                                                 !.cats = LoadedStore(SavedBytes(categories))]]
    /\ Goto(p, "ret")
    /\ UNCHANGED <<categories, mu, procs, inputs, plan, pending, start, committed, fs>>

\* one caller that trains and untrains, then saves and loads into a new classifier
NextRound ==
    \/ \E p \in procs, untrain \in BOOLEAN, name \in inputs.names,
          text \in inputs.texts : TrainCall(p, untrain, name, text)
    \/ \E p \in procs : TMatch(p)
    \/ \E p \in procs : TLoop(p)
    \/ \E p \in procs : TClean(p)
    \/ \E p \in procs : TEnsure(p)
    \/ \E p \in procs : WUnlock(p)
    \/ \E p \in procs : RoundTrip(p)
    \/ \E p \in procs : Return(p)

SpecRound == Init /\ [][NextRound]_vars

\* C12: for a store reached by Train and Untrain calls, the classifier loaded
\* from its saved bytes gives the same Score and Classify result for every
\* query text and the same Summaries (tally and both priors of every category).
RoundTripKeepsResults ==
    \A p \in procs :
        (pc[p] = "ret" /\ loc[p].op = "RoundTrip")
            => /\ \A t \in Texts :
                     /\ scoreUnlocked(loc[p].cats, t) = scoreUnlocked(categories, t)
                     /\ ClassifyResult(loc[p].cats, t) = ClassifyResult(categories, t)
               /\ Summaries(loc[p].cats) = Summaries(categories)

\* C13: the state Save exports under the read lock is the store as the last
\* completed write left it; no step taken between the export and the end of
\* the encoding changes it, whatever Train, Untrain, Flush or Load does to the
\* store meanwhile; and the bytes written decode to exactly that state.
SaveWritesOneInstant ==
    [][\A p \in procs :
          /\ (pc[p] = "v_export" /\ pc'[p] = "v_runlock")
                => /\ StateData(loc'[p].state.Categories) = committed
                   /\ mu.writer = NoProc
          /\ pc[p] \in {"v_runlock", "v_encode"} => loc'[p].state = loc[p].state
          /\ (pc[p] = "v_encode" /\ pc'[p] = "ret" /\ loc'[p].err = ErrNone)
                => GobDecode(loc'[p].out) = loc[p].state]_vars

\* C13 witness: a Save has written the store it exported, after a Train that
\* ran during the encoding has changed the store.
SaveWritesOneInstantWitness ==
    \E p \in procs :
        /\ pc[p] = "ret"
        /\ loc[p].op = "Save"
        /\ loc[p].err = ErrNone
        /\ GobDecode(loc[p].out) = loc[p].state
        /\ DOMAIN loc[p].state.Categories # {}
        /\ StateData(loc[p].state.Categories) # committed

-----------------------------------------------------------------------------
(* Save and Load with a writer or reader that may block for ever *)

\* the calls the other callers issue while a Save or Load is under way
BlockedPlanCalls ==
    {Call(op, "a", <<"x">>) : op \in {"Train", "Untrain"}}
        \cup {Call("Flush", "", <<>>)}
        \cup {Call(op, "", <<"x">>) : op \in {"Score", "Classify"}}

\* p1 saves and loads; p2 and p3 each issue one planned call
InitBlocked ==
    /\ procs = AllProcs
    /\ inputs = [names |-> {"a"}, texts |-> {<<"x">>},
                 readers |-> {GobReader([Version |-> 1,
                                         Categories |-> One("a", PCat(One("x", 1), 1))])},
                 writers |-> {"ok"}]
    /\ start \in {NewCategories, TrainUnderLock(NewCategories, FALSE, "a", <<"x", "y">>)}
    /\ categories = start
    /\ mu = [writer |-> NoProc, readers |-> {}]
    /\ pc = [p \in AllProcs |-> "idle"]
    /\ loc = [p \in AllProcs |-> LocIdle]
    /\ plan \in {f \in [AllProcs -> BlockedPlanCalls \cup {AnyCall}] :
                    f["p1"] = AnyCall /\ f["p2"] # AnyCall /\ f["p3"] # AnyCall}
    /\ pending = {"p2", "p3"}
    /\ committed = Data(start)
    /\ fs = NoFiles

\* a planned call enters: its Lock or RLock succeeds
PlannedCall(p) ==
    /\ p \in pending
    /\ \/ \E untrain \in BOOLEAN, name \in inputs.names, text \in inputs.texts :
             TrainCall(p, untrain, name, text)
       \/ FlushCall(p)
       \/ \E classify \in BOOLEAN, text \in inputs.texts : ScoreCall(p, classify, text)

\* a step that needs neither a lock nor the writer or reader of Save and Load
LockedStep(p) ==
    \/ TMatch(p) \/ TLoop(p) \/ TClean(p) \/ TEnsure(p) \/ WUnlock(p)
    \/ FBody(p) \/ RUnlock(p)
    \/ VExport(p) \/ VRUnlock(p) \/ LSwap(p)

\* weak fairness of SBody(p), which is enabled exactly at "s_body" and always
\* leaves it: no caller stays inside the body of Score or Classify for ever
ScoreBodyRuns == \A p \in AllProcs : []<>(pc[p] # "s_body")

NextBlocked ==
    \/ \E p \in procs : PlannedCall(p)
    \/ \E p \in procs : TMatch(p)
    \/ \E p \in procs : TLoop(p)
    \/ \E p \in procs : TClean(p)
    \/ \E p \in procs : TEnsure(p)
    \/ \E p \in procs : WUnlock(p)
    \/ \E p \in procs : FBody(p)
    \/ \E p \in procs : SBody(p)
    \/ \E p \in procs : RUnlock(p)
    \/ \E p \in procs, w \in inputs.writers : SaveCall(p, w)
    \/ \E p \in procs : VExport(p)
    \/ \E p \in procs : VRUnlock(p)
    \/ \E p \in procs : VEncode(p)
    \/ \E p \in procs, r \in inputs.readers : LoadCall(p, r)
    \/ \E p \in procs : LDecode(p)
    \/ \E p \in procs : LLock(p)
    \/ \E p \in procs : LSwap(p)
    \/ \E p \in procs : Return(p)

\* a goroutine inside a locked section keeps running and sync.RWMutex starves
\* no waiting caller; the encoding of Save and the decoding of Load may take
\* for ever
SpecBlocked ==
    /\ InitBlocked
    /\ [][NextBlocked]_vars
    /\ \A p \in AllProcs : WF_vars(LockedStep(p))
    /\ \A p \in {"p2", "p3"} : SF_vars(PlannedCall(p))
    /\ ScoreBodyRuns

\* C14: every Train, Untrain, Flush, Score and Classify call issued while a
\* Save or Load is under way completes, also when the writer of Save or the
\* reader of Load never returns.
BlockedIoDelaysNoCall ==
    <>(pending = {} /\ pc["p2"] = "idle" /\ pc["p3"] = "idle")

\* C14 witness: two planned calls, one of them a Train, have completed and
\* changed the store while the Save of p1 is still encoding.
BlockedIoDelaysNoCallWitness ==
    /\ pending = {}
    /\ pc["p2"] = "idle"
    /\ pc["p3"] = "idle"
    /\ plan["p2"].op = "Train"
    /\ pc["p1"] = "v_encode"
    /\ StateData(loc["p1"].state.Categories) # committed

-----------------------------------------------------------------------------
(* SaveToFile next to Train and Untrain *)

\* one caller; every step on the file may fail
InitFile ==
    InitWith({"p1"},
             [names |-> {"a"}, texts |-> {<<"x">>, <<"x", "y">>}, readers |-> {},
              writers |-> {}, paths |-> {"", "/m", "m"}, outcomes |-> BOOLEAN])

\* two callers that save to the same path
InitFileConc ==
    InitWith({"p1", "p2"},
             [names |-> {"a"}, texts |-> {<<"x">>}, readers |-> {},
              writers |-> {}, paths |-> {"/m"}, outcomes |-> {TRUE}])

NextFile ==
    \/ \E p \in procs, untrain \in BOOLEAN, name \in inputs.names,
          text \in inputs.texts : TrainCall(p, untrain, name, text)
    \/ \E p \in procs : TMatch(p)
    \/ \E p \in procs : TLoop(p)
    \/ \E p \in procs : TClean(p)
    \/ \E p \in procs : TEnsure(p)
    \/ \E p \in procs : WUnlock(p)
    \/ \E p \in procs, path \in inputs.paths : XCall(p, path)
    \/ \E p \in procs, ok \in inputs.outcomes : XCreate(p, ok)
    \/ \E p \in procs : XRLock(p)
    \/ \E p \in procs : XExport(p)
    \/ \E p \in procs : XRUnlock(p)
    \/ \E p \in procs, ok \in inputs.outcomes : XWrite(p, ok)
    \/ \E p \in procs, ok \in inputs.outcomes : XWriteEnd(p, ok)
    \/ \E p \in procs, ok \in inputs.outcomes : XSync(p, ok)
    \/ \E p \in procs : XCloseOnError(p)
    \/ \E p \in procs, ok \in inputs.outcomes : XClose(p, ok)
    \/ \E p \in procs, ok \in inputs.outcomes : XRename(p, ok)
    \/ \E p \in procs : XRemove(p)
    \/ \E p \in procs : Return(p)

SpecFile == InitFile /\ [][NextFile]_vars

\* Train and SaveToFile calls whose steps on the file succeed whenever they can
NextFileConc ==
    \/ \E p \in procs, name \in inputs.names, text \in inputs.texts :
          TrainCall(p, FALSE, name, text)
    \/ \E p \in procs : TMatch(p)
    \/ \E p \in procs : TLoop(p)
    \/ \E p \in procs : TClean(p)
    \/ \E p \in procs : TEnsure(p)
    \/ \E p \in procs : WUnlock(p)
    \/ \E p \in procs, path \in inputs.paths : XCall(p, path)
    \/ \E p \in procs, ok \in inputs.outcomes : XCreate(p, ok)
    \/ \E p \in procs : XRLock(p)
    \/ \E p \in procs : XExport(p)
    \/ \E p \in procs : XRUnlock(p)
    \/ \E p \in procs, ok \in inputs.outcomes : XWrite(p, ok)
    \/ \E p \in procs, ok \in inputs.outcomes : XWriteEnd(p, ok)
    \/ \E p \in procs, ok \in inputs.outcomes : XSync(p, ok)
    \/ \E p \in procs, ok \in inputs.outcomes : XClose(p, ok)
    \/ \E p \in procs, ok \in inputs.outcomes : XRename(p, ok)
    \/ \E p \in procs : XRemove(p)
    \/ \E p \in procs : Return(p)

SpecFileConc == InitFileConc /\ [][NextFileConc]_vars

-----------------------------------------------------------------------------
(* Classifier.LoadFromFile *)

errOpen == "open model file"

\* resolveModelPath and the filepath.IsAbs check of LoadFromFile
LoadFromFileCall(p, path) ==
    /\ Free(p)
    /\ IF ~IsAbs(resolveModelPath(path))
       THEN /\ loc' = [loc EXCEPT ![p] = [LocIdle EXCEPT !.op = "LoadFromFile",
                                                         !.path = resolveModelPath(path),
                                                         !.err = errPathNotAbsolute]]
            /\ Goto(p, "ret")
       ELSE /\ loc' = [loc EXCEPT ![p] = [LocIdle EXCEPT !.op = "LoadFromFile",
                                                         !.path = resolveModelPath(path)]]
            /\ Goto(p, "o_open")
    /\ UNCHANGED <<categories, mu, procs, inputs, plan, pending, start, committed, fs>>

\* os.Open(path), then c.Load(f): a file whose encoding was not written to its
\* end does not decode
LoadFromFileOpen(p, ok) ==
    /\ pc[p] = "o_open"
    /\ IF ok /\ ContentAt(fs, loc[p].path) # Absent
       THEN /\ loc' = [loc EXCEPT ![p].reader =
                          [kind |-> IF ContentAt(fs, loc[p].path).complete
                                    THEN "gob" ELSE "garbage",
                           bytes |-> ContentAt(fs, loc[p].path).bytes]]
            /\ Goto(p, "l_decode")
       ELSE /\ loc' = [loc EXCEPT ![p].err = errOpen]
            /\ Goto(p, "ret")
    /\ UNCHANGED <<categories, mu, procs, inputs, plan, pending, start, committed, fs>>

\* one caller; an absolute path, a relative path and the empty path
InitPath ==
    InitWith({"p1"},
             [names |-> {"a"}, texts |-> {<<"x">>, <<"x", "y">>}, readers |-> {},
              writers |-> {}, paths |-> {"", "/m", "m"}, outcomes |-> {TRUE}])

\* Train, SaveToFile and LoadFromFile
NextPath ==
    \/ NextFileConc
    \/ \E p \in procs, path \in inputs.paths : LoadFromFileCall(p, path)
    \/ \E p \in procs, ok \in BOOLEAN : LoadFromFileOpen(p, ok)
    \/ \E p \in procs : LDecode(p)
    \/ \E p \in procs : LLock(p)
    \/ \E p \in procs : LSwap(p)

SpecPath == InitPath /\ [][NextPath]_vars

\* C33: SaveToFile and LoadFromFile never work on an empty path (it stands for
\* /tmp/gobayes.gob); a call whose path is relative returns the
\* path-not-absolute error in its first step, with no file created or opened
\* and the files, the store and the lock as they were, and returning from it
\* changes none of them either; a call with any other path goes on to its
\* first step on the file system
RelativePathIsRejected ==
    [][\A p \in procs :
          /\ (pc[p] = "idle" /\ loc'[p].op \in {"SaveToFile", "LoadFromFile"})
                => /\ loc'[p].path # ""
                   /\ resolveModelPath("") = defaultModelFilePath
                   /\ IF loc'[p].path = "m"
                      THEN /\ pc'[p] = "ret"
                           /\ loc'[p].err = errPathNotAbsolute
                           /\ loc'[p].tempPath = ""
                           /\ loc'[p].steps = <<>>
                           /\ fs' = fs
                           /\ categories' = categories
                           /\ mu' = mu
                      ELSE /\ pc'[p] = (IF loc'[p].op = "SaveToFile"
                                        THEN "x_create" ELSE "o_open")
                           /\ loc'[p].err = ErrNone
                           /\ loc'[p].path \in {"/m", defaultModelFilePath}
          /\ (/\ pc[p] = "ret"
              /\ loc[p].op \in {"SaveToFile", "LoadFromFile"}
              /\ loc[p].err = errPathNotAbsolute)
                => /\ fs' = fs
                   /\ categories' = categories
                   /\ mu' = mu]_vars

\* a model saved with the empty path has been loaded back with the empty
\* path, and the caller holds the lock to store it
RelativePathIsRejectedWitness ==
    /\ defaultModelFilePath \notin inputs.paths
    /\ pc["p1"] = "w_unlock"
    /\ loc["p1"].op = "LoadFromFile"
    /\ loc["p1"].path = defaultModelFilePath
    /\ fs.dir["/m"] = Absent
    /\ Names(categories) = {"a"}
    /\ categories.categories["a"].tally = 2

\* C15: whatever a reader finds at the destination changes only in the rename
\* step of a SaveToFile call that has created, written, synced and closed its
\* temporary file, in that order, and it changes to the complete encoding of
\* that call's snapshot: the destination never holds a partly written file.
DestinationChangesOnlyByRename ==
    [][\A d \in DestPaths :
          ContentAt(fs', d) # ContentAt(fs, d)
              => \E p \in procs :
                    /\ pc[p] = "x_rename"
                    /\ loc[p].path = d
                    /\ loc[p].steps = <<"create", "write", "sync", "close">>
                    /\ ContentAt(fs', d) = FileOf(GobEncode(loc[p].state), TRUE)]_vars

\* C15 witness: a rename has put a new complete snapshot in the place of an
\* older one.
DestinationChangesOnlyByRenameWitness ==
    \E p \in procs :
        /\ pc[p] = "x_remove"
        /\ loc[p].steps = <<"create", "write", "sync", "close", "rename">>
        /\ loc[p].before.kind = "file"
        /\ ContentAt(fs, loc[p].path) = FileOf(GobEncode(loc[p].state), TRUE)
        /\ ContentAt(fs, loc[p].path) # loc[p].before

ConcurrentSavesLastRenameWins ==
    /\ \A p \in procs, q \in procs :
          (p # q /\ pc[p] # "ret" /\ pc[q] # "ret" /\ loc[p].tempPath # "")
              => loc[p].tempPath # loc[q].tempPath
    /\ \A d \in DestPaths : ContentAt(fs, d) # Absent => ContentAt(fs, d).complete
    /\ ((\A p \in procs : pc[p] \in {"idle", "ret"}) /\ fs.last.by # NoProc)
          => ContentAt(fs, fs.last.path) = FileOf(GobEncode(fs.last.state), TRUE)

-----------------------------------------------------------------------------
(* The effect of Train and Untrain on token counts and tallies *)

\* how often a token occurs in a tokenized sample
Occurrences(text, w) == Cardinality({i \in 1..Len(text) : text[i] = w})

\* the count of a token in a category of a store's data, 0 when either is absent
StoredCount(data, name, w) ==
    IF name \in DOMAIN data /\ w \in DOMAIN data[name].tokens
    THEN data[name].tokens[w] ELSE 0

\* C18: when Train has run for a valid category name, the target's count of
\* every token has grown by the number of its occurrences in the sample, its
\* tally by the length of the sample, and every other category is as it was.
TrainAddsOccurrences ==
    \A p \in procs :
        (pc[p] = "w_unlock" /\ loc[p].op = "Train" /\ loc[p].err = ErrNone)
            => /\ \A w \in Tokens :
                     StoredCount(Data(categories), loc[p].name, w)
                        = StoredCount(committed, loc[p].name, w) + Occurrences(loc[p].text, w)
               /\ (IF loc[p].name \in Names(categories)
                   THEN categories.categories[loc[p].name].tally ELSE 0)
                     = (IF loc[p].name \in DOMAIN committed
                        THEN committed[loc[p].name].tally ELSE 0) + Len(loc[p].text)
               /\ \A n \in (Names(categories) \cup DOMAIN committed) \ {loc[p].name} :
                     /\ n \in Names(categories)
                     /\ n \in DOMAIN committed
                     /\ Data(categories)[n] = committed[n]

\* C18 witness: Train of the sample "x x" has raised the count of x from 1 to 3
\* in one category while another category is stored.
TrainAddsOccurrencesWitness ==
    \E p \in procs :
        /\ pc[p] = "w_unlock"
        /\ loc[p].op = "Train"
        /\ loc[p].text = <<"x", "x">>
        /\ StoredCount(committed, loc[p].name, "x") = 1
        /\ StoredCount(Data(categories), loc[p].name, "x") = 3
        /\ Names(categories) \ {loc[p].name} # {}

\* C19: an UntrainToken step for a token the category holds with count n
\* removes the token and takes n off the tally when count >= n, and otherwise
\* takes count off both; and when Untrain has run, the target's count of every
\* token has gone down by the smaller of its occurrences in the sample and its
\* count before.
UntrainTokenTakesMin ==
    [][\A p \in procs :
          /\ (pc[p] = "t_loop" /\ loc[p].untrain)
                => \A w \in loc[p].rest \ loc'[p].rest :
                      w \in DOMAIN categories.categories[loc[p].name].tokens
                         => IF loc[p].occ[w] >= categories.categories[loc[p].name].tokens[w]
                            THEN /\ w \notin DOMAIN categories'.categories[loc[p].name].tokens
                                 /\ categories'.categories[loc[p].name].tally
                                       = categories.categories[loc[p].name].tally
                                           - categories.categories[loc[p].name].tokens[w]
                            ELSE /\ w \in DOMAIN categories'.categories[loc[p].name].tokens
                                 /\ categories'.categories[loc[p].name].tokens[w]
                                       = categories.categories[loc[p].name].tokens[w]
                                           - loc[p].occ[w]
                                 /\ categories'.categories[loc[p].name].tally
                                       = categories.categories[loc[p].name].tally
                                           - loc[p].occ[w]
          /\ (pc[p] = "w_unlock" /\ loc[p].op = "Untrain" /\ loc[p].err = ErrNone)
                => \A w \in Tokens :
                      StoredCount(Data(categories), loc[p].name, w)
                         = StoredCount(committed, loc[p].name, w)
                             - (IF Occurrences(loc[p].text, w)
                                      <= StoredCount(committed, loc[p].name, w)
                                THEN Occurrences(loc[p].text, w)
                                ELSE StoredCount(committed, loc[p].name, w))]_vars

\* C19 witness: Untrain of the sample "y x x" on a category that held x once
\* and y twice has removed x and left y once.
UntrainTokenTakesMinWitness ==
    \E p \in procs :
        /\ pc[p] = "w_unlock"
        /\ loc[p].op = "Untrain"
        /\ loc[p].text = <<"y", "x", "x">>
        /\ loc[p].name \in DOMAIN committed
        /\ committed[loc[p].name].tokens = MapPut(One("x", 1), "y", 2)
        /\ loc[p].name \in Names(categories)
        /\ categories.categories[loc[p].name].tokens = One("y", 1)

\* C20: an UntrainToken step for a token the category does not hold changes
\* no token count and not the tally, and it sets no error.
UnknownTokenIsNoOp ==
    [][\A p \in procs :
          (pc[p] = "t_loop" /\ loc[p].untrain)
              => \A w \in loc[p].rest \ loc'[p].rest :
                    w \notin DOMAIN categories.categories[loc[p].name].tokens
                       => /\ categories' = categories
                          /\ loc'[p].err = ErrNone]_vars

\* C20 witness: Untrain of the sample "y" has run on a category that holds only
\* x, and the category is as it was.
UnknownTokenIsNoOpWitness ==
    \E p \in procs :
        /\ pc[p] = "w_unlock"
        /\ loc[p].op = "Untrain"
        /\ loc[p].err = ErrNone
        /\ loc[p].text = <<"y">>
        /\ loc[p].name \in DOMAIN committed
        /\ committed[loc[p].name].tokens = One("x", 2)
        /\ Data(categories) = committed

-----------------------------------------------------------------------------
(* Invalid names, removal and recreation *)

\* C21: a Train or Untrain call whose category name does not match the
\* pattern changes nothing in the store at any of its steps, reaches its
\* unlock with ErrInvalidCategoryName without entering the loop, and its last
\* step releases the write lock.
InvalidNameChangesNothing ==
    [][\A p \in procs :
          (loc[p].op \in {"Train", "Untrain"} /\ ~categoryNamePattern(loc[p].name))
              => /\ categories' = categories
                 /\ pc[p] = "t_match"
                       => (pc'[p] = "w_unlock" /\ loc'[p].err = ErrInvalidCategoryName)
                 /\ pc[p] = "w_unlock"
                       => (loc[p].err = ErrInvalidCategoryName /\ pc'[p] = "idle"
                           /\ mu'.writer = NoProc /\ committed' = committed)
                 /\ pc[p] \in {"t_match", "w_unlock"}]_vars

\* C21 witness: an Untrain with the empty name has failed on a store that
\* holds two categories.
InvalidNameChangesNothingWitness ==
    \E p \in procs :
        /\ pc[p] = "w_unlock"
        /\ loc[p].op = "Untrain"
        /\ loc[p].name = ""
        /\ loc[p].err = ErrInvalidCategoryName
        /\ Names(categories) = {"a", "b"}

\* C22: an Untrain that takes every token of a stored category away leaves the
\* store without that category, and a Train of a name the store does not hold
\* leaves the category with exactly the counts and the tally of its sample.
RemovedCategoryStartsEmpty ==
    \A p \in procs :
        /\ (/\ pc[p] = "w_unlock"
            /\ loc[p].op = "Untrain"
            /\ loc[p].name \in DOMAIN committed
            /\ \A w \in DOMAIN committed[loc[p].name].tokens :
                  Occurrences(loc[p].text, w) >= committed[loc[p].name].tokens[w])
              => loc[p].name \notin Names(categories)
        /\ (/\ pc[p] = "w_unlock"
            /\ loc[p].op = "Train"
            /\ loc[p].name \notin DOMAIN committed)
              => /\ loc[p].name \in Names(categories)
                 /\ DOMAIN categories.categories[loc[p].name].tokens
                       = {loc[p].text[i] : i \in 1..Len(loc[p].text)}
                 /\ \A w \in DOMAIN categories.categories[loc[p].name].tokens :
                       categories.categories[loc[p].name].tokens[w]
                          = Occurrences(loc[p].text, w)
                 /\ categories.categories[loc[p].name].tally = Len(loc[p].text)

\* C22 witness: category a, stored with x and y at the start, has been removed
\* by an Untrain, and a Train of the sample "x" has stored it again with x only.
RemovedCategoryStartsEmptyWitness ==
    \E p \in procs :
        /\ pc[p] = "w_unlock"
        /\ loc[p].op = "Train"
        /\ loc[p].name = "a"
        /\ loc[p].text = <<"x">>
        /\ "a" \in Names(start)
        /\ DOMAIN start.categories["a"].tokens = {"x", "y"}
        /\ "a" \notin DOMAIN committed
        /\ categories.categories["a"].tokens = One("x", 1)
        /\ categories.categories["a"].tally = 1

-----------------------------------------------------------------------------
(* The results of Classify and Score *)

\* C23: when the scores of a Classify call are not empty, the result names a
\* scored category together with its score, no category has a greater score,
\* and every other category with the same score has a later name.
ClassifyPicksGreatest ==
    \A p \in procs :
        (pc[p] = "r_unlock" /\ loc[p].op = "Classify" /\ DOMAIN loc[p].scores # {})
            => /\ loc[p].scores = scoreUnlocked(categories, loc[p].text)
               /\ loc[p].classification.Category \in DOMAIN loc[p].scores
               /\ loc[p].classification.Score
                     = loc[p].scores[loc[p].classification.Category]
               /\ \A n \in DOMAIN loc[p].scores :
                     /\ ~FGreater(loc[p].scores[n], loc[p].classification.Score)
                     /\ (n # loc[p].classification.Category
                         /\ loc[p].scores[n] = loc[p].classification.Score)
                           => <<loc[p].classification.Category, n>> \in {<<"a", "b">>}

\* C23 witness: a Classify has found a and b with the same score and returned a.
ClassifyPicksGreatestWitness ==
    \E p \in procs :
        /\ pc[p] = "r_unlock"
        /\ loc[p].op = "Classify"
        /\ DOMAIN loc[p].scores = {"a", "b"}
        /\ loc[p].scores["a"] = loc[p].scores["b"]
        /\ loc[p].classification = [Category |-> "a", Score |-> loc[p].scores["a"]]

\* C24: a Classify call for which no category has a positive score, as on a
\* store without categories or for a text none of whose tokens is stored,
\* returns the empty name with the score zero.
ClassifyWithoutScoreIsEmpty ==
    \A p \in procs :
        (pc[p] = "r_unlock" /\ loc[p].op = "Classify")
            => /\ (\/ Names(categories) = {}
                   \/ \A i \in 1..Len(loc[p].text) :
                         TokenTally(categories, loc[p].text[i]) = 0)
                     => DOMAIN loc[p].scores = {}
               /\ DOMAIN loc[p].scores = {}
                     => loc[p].classification = [Category |-> "", Score |-> <<0, 1>>]

\* C24 witness: a Classify of the sample "y" on a store that holds x only has
\* returned the empty result.
ClassifyWithoutScoreIsEmptyWitness ==
    \E p \in procs :
        /\ pc[p] = "r_unlock"
        /\ loc[p].op = "Classify"
        /\ loc[p].text = <<"y">>
        /\ Names(categories) = {"a"}
        /\ DOMAIN categories.categories["a"].tokens = {"x"}
        /\ loc[p].classification.Category = ""

\* what one token adds to a category's score for each of its occurrences:
\* numerator / denominator with numerator = (tokenScore / tokenTally) * probInCat
\* and denominator = numerator + ((tokenTally - tokenScore) / tokenTally) *
\* probNotInCat; 0 when tokenTally or the denominator is 0
Contribution(cats, name, w) ==
    IF TokenTally(cats, w) = 0 THEN <<0, 1>>
    ELSE IF FAdd(FMul(Frac(GetTokenCount(cats.categories[name], w), TokenTally(cats, w)),
                      cats.categories[name].probInCat),
                 FMul(Frac(TokenTally(cats, w) - GetTokenCount(cats.categories[name], w),
                           TokenTally(cats, w)),
                      cats.categories[name].probNotInCat)) = <<0, 1>>
         THEN <<0, 1>>
         ELSE FDiv(FMul(Frac(GetTokenCount(cats.categories[name], w), TokenTally(cats, w)),
                        cats.categories[name].probInCat),
                   FAdd(FMul(Frac(GetTokenCount(cats.categories[name], w),
                                  TokenTally(cats, w)),
                             cats.categories[name].probInCat),
                        FMul(Frac(TokenTally(cats, w)
                                     - GetTokenCount(cats.categories[name], w),
                                  TokenTally(cats, w)),
                             cats.categories[name].probNotInCat)))

\* the score of a category for a sample over the tokens x and y: the sum of
\* sampleCount(token) * contribution
Accumulated(cats, name, text) ==
    FAdd(FMul(Frac(Occurrences(text, "x"), 1), Contribution(cats, name, "x")),
         FMul(Frac(Occurrences(text, "y"), 1), Contribution(cats, name, "y")))

\* C25: the map a Score call returns has a key for a stored category exactly
\* when its accumulated score is greater than zero, the value is that score,
\* and no key is the name of a category that is not stored.
ScoreKeepsPositiveOnly ==
    \A p \in procs :
        (pc[p] = "r_unlock" /\ loc[p].op = "Score")
            => /\ DOMAIN loc[p].scores \subseteq Names(categories)
               /\ \A n \in Names(categories) :
                     /\ n \in DOMAIN loc[p].scores
                           <=> FGreater(Accumulated(categories, n, loc[p].text), <<0, 1>>)
                     /\ n \in DOMAIN loc[p].scores
                           => /\ loc[p].scores[n] = Accumulated(categories, n, loc[p].text)
                              /\ loc[p].scores[n] # <<0, 1>>

\* C25 witness: a Score of the sample "x" on a store where a holds x and b
\* holds only y has returned a score for a and no entry for b.
ScoreKeepsPositiveOnlyWitness ==
    \E p \in procs :
        /\ pc[p] = "r_unlock"
        /\ loc[p].op = "Score"
        /\ loc[p].text = <<"x">>
        /\ Names(categories) = {"a", "b"}
        /\ DOMAIN categories.categories["b"].tokens = {"y"}
        /\ DOMAIN loc[p].scores = {"a"}

\* C26: for a token that no stored category holds, the scores a Score call
\* returns are those of its text with the token added at the end or at the
\* front, and a text of such tokens only has no scores.
UnknownTokenAddsNothing ==
    \A p \in procs :
        (pc[p] = "r_unlock" /\ loc[p].op = "Score")
            => /\ \A w \in Tokens :
                     TokenTally(categories, w) = 0
                        => /\ scoreUnlocked(categories, Append(loc[p].text, w))
                                 = scoreUnlocked(categories, loc[p].text)
                           /\ scoreUnlocked(categories, <<w>> \o loc[p].text)
                                 = scoreUnlocked(categories, loc[p].text)
               /\ (\A i \in 1..Len(loc[p].text) :
                      TokenTally(categories, loc[p].text[i]) = 0)
                     => loc[p].scores = EmptyMap
               /\ \A t \in Texts :
                     (/\ Len(t) < Len(loc[p].text)
                      /\ \A w \in Tokens :
                            Occurrences(loc[p].text, w) # Occurrences(t, w)
                               => (TokenTally(categories, w) = 0 /\ Occurrences(t, w) = 0))
                        => loc[p].scores = scoreUnlocked(categories, t)

\* C26 witness: a Score of the sample "x y" on a store that holds x and not y
\* has returned the scores of the sample "x", which are not empty.
UnknownTokenAddsNothingWitness ==
    \E p \in procs :
        /\ pc[p] = "r_unlock"
        /\ loc[p].op = "Score"
        /\ loc[p].text = <<"x", "y">>
        /\ TokenTally(categories, "y") = 0
        /\ loc[p].scores # EmptyMap
        /\ loc[p].scores = scoreUnlocked(categories, <<"x">>)

\* C27: every score a Score or Classify call works with is, for its category,
\* the sum over the distinct sample tokens of sampleCount * contribution, with
\* the contribution computed from the token counts and the category's priors
\* as numerator / denominator, and 0 when the denominator is 0.
ScoreIsSumOfContributions ==
    \A p \in procs :
        (pc[p] = "r_unlock" /\ loc[p].op \in {"Score", "Classify"})
            => \A n \in Names(categories) :
                  IF n \in DOMAIN loc[p].scores
                  THEN loc[p].scores[n] = Accumulated(categories, n, loc[p].text)
                  ELSE Accumulated(categories, n, loc[p].text) = <<0, 1>>

\* C27 witness: a Score of the sample "y x x" has given a, which holds x twice
\* and y once while b holds x once, two contributions of 2/3 for x and one of
\* 1 for y: 7/3.
ScoreIsSumOfContributionsWitness ==
    \E p \in procs :
        /\ pc[p] = "r_unlock"
        /\ loc[p].op = "Score"
        /\ loc[p].text = <<"y", "x", "x">>
        /\ Names(categories) = {"a", "b"}
        /\ categories.categories["a"].tokens = MapPut(One("x", 2), "y", 1)
        /\ categories.categories["b"].tokens = One("x", 1)
        /\ "a" \in DOMAIN loc[p].scores
        /\ loc[p].scores["a"] = Accumulated(categories, "a", loc[p].text)

-----------------------------------------------------------------------------
(* Summaries and Flush *)

\* C28: the map a Summaries call returns has one entry for each stored
\* category, with the category's tally, its tally over the sum of all stored
\* tallies as probInCat (0 when the sum is zero) and 1 - probInCat as
\* probNotInCat.
SummariesAreCurrent ==
    \A p \in procs :
        (pc[p] = "r_unlock" /\ loc[p].op = "Summaries")
            => /\ DOMAIN loc[p].summaries = Names(categories)
               /\ \A n \in Names(categories) :
                     /\ loc[p].summaries[n].TokenTally = categories.categories[n].tally
                     /\ loc[p].summaries[n].ProbInCat
                           = (IF TotalTally(categories) = 0 THEN <<0, 1>>
                              ELSE Frac(categories.categories[n].tally,
                                        TotalTally(categories)))
                     /\ loc[p].summaries[n].ProbNotInCat
                           = FSub(<<1, 1>>, loc[p].summaries[n].ProbInCat)

\* one caller that trains, untrains, takes summaries and changes the maps it
\* got; Train and Untrain leave the dirty flag false, so the second loop of
\* EnsureCategoryProbabilities (MSet) never has a category to set here
NextSnapshot ==
    \/ \E p \in procs, untrain \in BOOLEAN, name \in inputs.names,
          text \in inputs.texts : TrainCall(p, untrain, name, text)
    \/ \E p \in procs : TMatch(p)
    \/ \E p \in procs : TLoop(p)
    \/ \E p \in procs : TClean(p)
    \/ \E p \in procs : TEnsure(p)
    \/ \E p \in procs : WUnlock(p)
    \/ \E p \in procs : SummariesCall(p)
    \/ \E p \in procs : MEnsure(p)
    \/ \E p \in procs : MClear(p)
    \/ \E p \in procs : MCopy(p)
    \/ \E p \in procs : MReturn(p)
    \/ \E p \in procs, n \in ValidNames, how \in {"field", "delete"} :
          MutateSummaries(p, n, how)
    \/ \E p \in procs : Return(p)

SpecSnapshot == Init /\ [][NextSnapshot]_vars

FlushLeavesDirtyEmptyStore ==
    \A p \in procs :
        (pc[p] = "w_unlock" /\ loc[p].op = "Flush")
            => (Names(categories) = {} /\ categories.probabilitiesDirty)

\* C30 amended: when Flush has run its body the store holds no category,
\* whatever it held before, and its probabilitiesDirty flag is false: Flush
\* recomputes the priors of the empty store before it returns.
FlushLeavesCleanEmptyStore ==
    \A p \in procs :
        (pc[p] = "w_unlock" /\ loc[p].op = "Flush")
            => (Names(categories) = {} /\ ~categories.probabilitiesDirty)

\* C30 witness: Flush has emptied a store that held two categories.
FlushLeavesCleanEmptyStoreWitness ==
    \E p \in procs :
        /\ pc[p] = "w_unlock"
        /\ loc[p].op = "Flush"
        /\ DOMAIN committed = {"a", "b"}
        /\ Names(categories) = {}

-----------------------------------------------------------------------------
(* The cached priors and the dirty flag *)

\* C31: whenever the priors count as recomputed (probabilitiesDirty is false),
\* every stored category has probInCat + probNotInCat = 1 and both values
\* between 0 and 1.
PriorsSumToOne ==
    ~categories.probabilitiesDirty
        => \A n \in Names(categories) :
              /\ FAdd(categories.categories[n].probInCat,
                      categories.categories[n].probNotInCat) = <<1, 1>>
              /\ ~FGreater(<<0, 1>>, categories.categories[n].probInCat)
              /\ ~FGreater(categories.categories[n].probInCat, <<1, 1>>)
              /\ ~FGreater(<<0, 1>>, categories.categories[n].probNotInCat)
              /\ ~FGreater(categories.categories[n].probNotInCat, <<1, 1>>)

\* C31 witness: a Classify runs on a store whose two categories have the
\* recomputed priors 1/3 and 2/3.
PriorsSumToOneWitness ==
    \E p \in procs :
        /\ pc[p] = "r_unlock"
        /\ loc[p].op = "Classify"
        /\ ~categories.probabilitiesDirty
        /\ Names(categories) = {"a", "b"}
        /\ categories.categories["a"].probInCat = <<1, 3>>
        /\ categories.categories["a"].probNotInCat = <<2, 3>>
        /\ categories.categories["b"].probInCat = <<2, 3>>

-----------------------------------------------------------------------------
(* Calls on the categories of a store, outside any Classifier *)

NextCategory ==
    \/ \E p \in procs, untrain \in BOOLEAN, name \in ValidNames, word \in Tokens,
          count \in -1..2 : CategoryTokenCall(p, untrain, name, word, count)
    \/ \E p \in procs : Return(p)

SpecCategory == Init /\ [][NextCategory]_vars

\* C32: a TrainToken or UntrainToken call with count <= 0 returns
\* ErrInvalidTokenCount and leaves the category as it was: its tokens, their
\* counts and its tally.
InvalidCountChangesNothing ==
    \A p \in procs :
        (pc[p] = "ret" /\ loc[p].op \in {"TrainToken", "UntrainToken"}
         /\ loc[p].count <= 0)
            => /\ loc[p].err = ErrInvalidTokenCount
               /\ categories.categories[loc[p].name] = loc[p].cats.categories[loc[p].name]

\* C32 witness: TrainToken with count -1 has returned its error on a category
\* that holds the token twice.
InvalidCountChangesNothingWitness ==
    \E p \in procs :
        /\ pc[p] = "ret"
        /\ loc[p].op = "TrainToken"
        /\ loc[p].count = -1
        /\ loc[p].err = ErrInvalidTokenCount
        /\ GetTokenCount(categories.categories[loc[p].name], loc[p].word) = 2

\* C34: every step of Train or Untrain that adds a category, removes one or
\* changes a token count leaves probabilitiesDirty true, and probabilitiesDirty
\* goes from true to false only in a step after which the priors of every
\* stored category are those of the tallies.
DirtySetByEveryMutation ==
    [][/\ \A p \in procs :
             (/\ pc[p] \in {"t_match", "t_loop"}
              /\ Data(categories') # Data(categories))
                => categories'.probabilitiesDirty
       /\ (categories.probabilitiesDirty /\ ~categories'.probabilitiesDirty)
             => PriorsOf(categories') = CurrentPriors(categories')]_vars

\* C35: every token a stored category holds has a count of at least 1, in
\* every state that Train, Untrain, Flush and Load calls reach.
StoredCountsArePositive ==
    \A n \in Names(categories) :
        \A t \in DOMAIN categories.categories[n].tokens :
            categories.categories[n].tokens[t] >= 1

\* an Untrain of "x" has removed x from b and left y with its count of 1, in
\* a store that a Load put in place
StoredCountsArePositiveWitness ==
    \E p \in procs :
        /\ pc[p] = "w_unlock"
        /\ loc[p].op = "Untrain"
        /\ loc[p].name = "b"
        /\ {"a", "b"} \subseteq DOMAIN committed
        /\ committed["b"].tokens = MapPut(One("x", 1), "y", 1)
        /\ "b" \in Names(categories)
        /\ categories.categories["b"].tokens = One("y", 1)

\* C36: when no call holds the write lock, no stored category has a tally of
\* zero, whatever Train, Untrain, Flush and Load calls were made.
NoStoredCategoryIsEmpty ==
    mu.writer = NoProc
        => \A n \in Names(categories) : categories.categories[n].tally # 0

\* one caller, three valid names, the text without tokens and the text "x"
InitAbsent ==
    InitWith({"p1"},
             [names |-> ValidNames \cup {ThirdName}, texts |-> {<<>>, <<"x">>},
              readers |-> {}, writers |-> {}])

SpecAbsent == InitAbsent /\ [][NextTrain]_vars

\* an Untrain, or a Train or Untrain of a text without tokens, that names a
\* valid category the store did not hold when the call took the lock
NamesAbsentCategory(p) ==
    /\ loc[p].op \in {"Train", "Untrain"}
    /\ pc[p] \in {"t_match", "t_loop", "t_ensure"}
    /\ categoryNamePattern(loc[p].name)
    /\ loc[p].name \notin DOMAIN committed
    /\ loc[p].untrain \/ loc[p].text = <<>>

\* C37: no step of such a call changes the tokens, the tally or the priors of a
\* category the store held before the call, and when the call reaches its
\* unlock the store holds the categories it held before and no other.
AbsentCategoryCallChangesNothing ==
    [][\A p \in procs :
          NamesAbsentCategory(p)
              => /\ \A n \in DOMAIN committed :
                       /\ n \in Names(categories')
                       /\ categories'.categories[n] = categories.categories[n]
                 /\ pc'[p] = "w_unlock" => Names(categories') = DOMAIN committed]_vars

-----------------------------------------------------------------------------
(* A custom Tokenizer *)

\* one caller of a classifier whose Tokenizer can emit the empty string: the
\* texts are the token lists it returns
InitTokenizer ==
    InitWith({"p1"},
             [names |-> {"a", "b"}, texts |-> {<<"x">>, <<"">>, <<"x", "">>},
              readers |-> {}, writers |-> {}])

SpecTokenizer == InitTokenizer /\ [][NextRound]_vars

\* C38: the bytes Save writes for a store that Train and Untrain calls have
\* reached, whatever tokens the tokenizer has emitted, decode to a model state
\* that validateModelState accepts.
SavedSnapshotPassesValidation ==
    \A p \in procs :
        (pc[p] = "ret" /\ loc[p].op = "RoundTrip")
            => validateModelState(GobDecode(loc[p].out)) = {ErrNone}

-----------------------------------------------------------------------------
(* Classify and Score in the same state *)

\* C39: the result of a Classify call is the empty Classification exactly when
\* Score returns the empty map for the same text in the same state; otherwise
\* its category is a key of that map, its score is the value at that key, and
\* no value of the map is greater.
ClassifyAgreesWithScore ==
    \A p \in procs :
        (pc[p] = "r_unlock" /\ loc[p].op = "Classify")
            => LET scores == scoreUnlocked(categories, loc[p].text)
                   result == loc[p].classification
               IN  /\ (result = NoClassification) <=> (DOMAIN scores = {})
                   /\ DOMAIN scores # {}
                         => /\ result.Category \in DOMAIN scores
                            /\ result.Score = scores[result.Category]
                            /\ \A n \in DOMAIN scores : ~FGreater(scores[n], result.Score)

\* a Classify has returned b, whose score is greater than the score of a
ClassifyAgreesWithScoreWitness ==
    \E p \in procs :
        /\ pc[p] = "r_unlock"
        /\ loc[p].op = "Classify"
        /\ DOMAIN scoreUnlocked(categories, loc[p].text) = {"a", "b"}
        /\ FGreater(scoreUnlocked(categories, loc[p].text)["b"],
                    scoreUnlocked(categories, loc[p].text)["a"])
        /\ loc[p].classification.Category = "b"

-----------------------------------------------------------------------------
(* Every call returns and gives its lock back *)

\* the calls that p2 and p3 issue, one each
FairPlanCalls ==
    {Call(op, n, <<"x">>) : op \in {"Train", "Untrain"}, n \in {"a", "a!"}}
        \cup {Call("Flush", "", <<>>)}
        \cup {Call(op, "", <<"x">>) : op \in {"Score", "Classify"}}

\* p1 saves, loads and asks for the summaries again and again; p2 and p3 each
\* issue one planned call
InitFair ==
    /\ procs = AllProcs
    /\ inputs = [names |-> {"a", "a!"}, texts |-> {<<"x">>},
                 readers |-> {GobReader([Version |-> 1,
                                         Categories |-> One("a", PCat(One("x", 1), 1))])},
                 writers |-> {"nil", "ok"}]
    /\ start = NewCategories
    /\ categories = start
    /\ mu = [writer |-> NoProc, readers |-> {}]
    /\ pc = [p \in AllProcs |-> "idle"]
    /\ loc = [p \in AllProcs |-> LocIdle]
    /\ plan \in {f \in [AllProcs -> FairPlanCalls \cup {AnyCall}] :
                    f["p1"] = AnyCall /\ f["p2"] # AnyCall /\ f["p3"] # AnyCall}
    /\ pending = {"p2", "p3"}
    /\ committed = Data(start)
    /\ fs = NoFiles

\* a step of a call that has entered, other than the body of Score and Classify
FairStep(p) ==
    \/ LockedStep(p)
    \/ VEncode(p) \/ LDecode(p) \/ LLock(p)
    \/ MEnsure(p) \/ MSet(p) \/ MClear(p) \/ MCopy(p)
    \/ Return(p)

NextFair ==
    \/ \E p \in procs : PlannedCall(p)
    \/ \E p \in procs : TMatch(p)
    \/ \E p \in procs : TLoop(p)
    \/ \E p \in procs : TClean(p)
    \/ \E p \in procs : TEnsure(p)
    \/ \E p \in procs : WUnlock(p)
    \/ \E p \in procs : FBody(p)
    \/ \E p \in procs : SBody(p)
    \/ \E p \in procs : RUnlock(p)
    \/ \E p \in procs, w \in inputs.writers : SaveCall(p, w)
    \/ \E p \in procs : VExport(p)
    \/ \E p \in procs : VRUnlock(p)
    \/ \E p \in procs : VEncode(p)
    \/ \E p \in procs, r \in inputs.readers : LoadCall(p, r)
    \/ \E p \in procs : LDecode(p)
    \/ \E p \in procs : LLock(p)
    \/ \E p \in procs : LSwap(p)
    \/ \E p \in procs : SummariesCall(p)
    \/ \E p \in procs : MEnsure(p)
    \/ \E p \in procs : MSet(p)
    \/ \E p \in procs : MClear(p)
    \/ \E p \in procs : MCopy(p)
    \/ \E p \in procs : Return(p)

\* the Go scheduler runs every goroutine that can run, the tokenizer, the
\* writer of Save and the reader of Load return, and sync.RWMutex starves no
\* waiting caller
SpecFair ==
    /\ InitFair
    /\ [][NextFair]_vars
    /\ \A p \in AllProcs : WF_vars(FairStep(p))
    /\ \A p \in {"p2", "p3"} : SF_vars(PlannedCall(p))
    /\ ScoreBodyRuns

\* the steps between Lock and Unlock, and between RLock and RUnlock
WriteSteps == {"t_match", "t_loop", "t_ensure", "f_body", "l_swap", "w_unlock"}

ReadSteps == {"s_body", "m_ensure", "m_set", "m_copy", "v_export", "v_runlock", "r_unlock"}

\* C40: the write lock is held only by a caller between its Lock and its
\* Unlock and the read lock only by callers between RLock and RUnlock, so no
\* lock is held when no call is in progress; every call that has entered
\* returns; and the calls that wait for the lock enter.
EveryCallReturns ==
    /\ [](/\ mu.writer # NoProc => pc[mu.writer] \in WriteSteps
          /\ \A p \in mu.readers : pc[p] \in ReadSteps
          /\ (\A p \in AllProcs : pc[p] \in {"idle", "ret"})
                => (mu.writer = NoProc /\ mu.readers = {}))
    /\ \A p \in AllProcs : (pc[p] # "idle") ~> (pc[p] = "idle")
    /\ <>(pending = {})

\* a Train with an invalid name and a Flush have returned, p1 has returned from
\* a call, and no lock is held
EveryCallReturnsWitness ==
    /\ pending = {}
    /\ plan["p2"] = Call("Train", "a!", <<"x">>)
    /\ plan["p3"].op = "Flush"
    /\ \A p \in AllProcs : pc[p] = "idle"
    /\ mu = [writer |-> NoProc, readers |-> {}]
    /\ Names(categories) = {}
    /\ committed # Data(start) \/ categories # start

====
